---- MODULE Spec2Model ----
(***************************************************************************)
(* A model of widelogger: the field container (widelogger.go) and the      *)
(* HTTP middleware that drives its lifecycle (middleware.go).              *)
(*                                                                         *)
(*   Spec      one request served by one middleware instance, with a       *)
(*             downstream handler that runs sequentially.                  *)
(*   SpecConc  goroutines sharing one container: producers calling         *)
(*             AddFields / AddWarning / AddError and a reader calling      *)
(*             collectFields, interleaved statement by statement.          *)
(*   SpecApi   one goroutine calling the package API on contexts with and  *)
(*             without a container.                                        *)
(*   SpecWriter  calls on the wrapped response writer.                     *)
(*   SpecCtx   contexts derived from one another by NewContext.            *)
(*   SpecReqs  requests served at the same time.                           *)
(*   SpecOpts  the option list a middleware is built from.                 *)
(*   SpecLocks  goroutines taking the package's two locks; SpecLocksFair   *)
(*             adds that a goroutine that can step does step.              *)
(*   SpecFin   the end of a request while goroutines the handler left      *)
(*             behind still add to the container.                          *)
(*   SpecBind  middleware construction and SetDefaultLogger in sequence.   *)
(*   SpecSnap  the sequence collectFields returns and later additions.     *)
(***************************************************************************)
EXTENDS Integers, Sequences, FiniteSets, TLC

(***************************************************************************)
(* Bounds of the model.                                                    *)
(***************************************************************************)
\* Sampling rates and random draws are multiples of 1/RateScale: a rate is
\* r/RateScale with r in 0..RateScale, a draw of Float64() is d/RateScale
\* with d in 0..RateScale-1 (the half-open interval [0,1)).
RateScale == 2
\* Calls the downstream handler makes before it returns or panics.
MaxHandlerOps == 2
\* Producer goroutines of SpecConc.
NumProducers == 2
\* Calls the goroutine of SpecApi makes.
MaxApiCalls == 2
\* Calls made on the wrapped writer of SpecWriter.
MaxWriterCalls == 3
\* Contexts the caller of SpecCtx derives, and accumulation calls it makes.
MaxContexts == 2
MaxCtxCalls == 2
\* Requests served at the same time in SpecReqs, and accumulation calls the
\* handler of each makes.
NumRequests == 2
MaxRequestOps == 1

\* Options in the list a middleware is built from (SpecOpts).
MaxOptions == 2

\* Goroutines of SpecLocks, each making one call.
NumCallers == 2

\* Calls the goroutine of SpecBind makes.
MaxBindCalls == 3

\* Calls the goroutine of SpecSnap makes.
MaxSnapCalls == 3

(***************************************************************************)
(* Values of type any.  Every value is a record of one shape, so that any  *)
(* two values can be compared: t is the dynamic type, and exactly one of   *)
(* s (string), n (int), l ([]Warning), m (map[string]string) carries it.   *)
(***************************************************************************)
EmptyMap == [x \in {} |-> ""]

StrV(s) == [t |-> "string", s |-> s, n |-> 0, l |-> <<>>, m |-> EmptyMap]

IntV(n) == [t |-> "int", s |-> "", n |-> n, l |-> <<>>, m |-> EmptyMap]

ListV(l) == [t |-> "[]Warning", s |-> "", n |-> 0, l |-> l, m |-> EmptyMap]

MapV(m) == [t |-> "map", s |-> "", n |-> 0, l |-> <<>>, m |-> m]

\* keysAndValues[i].(string): the type assertion of AddFields / AddWarning.
IsString(v) == v.t = "string"

\* slog levels.
LevelInfo == "INFO"

LevelWarn == "WARN"

LevelError == "ERROR"

(***************************************************************************)
(* The field container.                                                    *)
(***************************************************************************)
\* A container as NewContext makes it: empty, non-nil map and slices.
EmptyFields == [k \in {} |-> StrV("")]

\* Faulty variant: a key that is already present keeps its value.
SetFieldKeepFirst(f, k, v) ==
    [x \in (DOMAIN f) \cup {k} |-> IF x \in DOMAIN f THEN f[x] ELSE v]

\* container.fields[key] = value
SetField(f, k, v) == [x \in (DOMAIN f) \cup {k} |-> IF x = k THEN v ELSE f[x]]

\* The loop of AddFields: for i := 0; i < len(kv); i += 2, a pair whose key
\* is not a string is skipped.  Sequences are 1-based, so pair i is
\* kv[i], kv[i+1].
RECURSIVE ApplyPairsFrom(_, _, _)
ApplyPairsFrom(f, kv, i) ==
    IF i > Len(kv) THEN f
    ELSE IF IsString(kv[i])
         THEN ApplyPairsFrom(SetField(f, kv[i].s, kv[i + 1]), kv, i + 2)
         ELSE ApplyPairsFrom(f, kv, i + 2)

\* Faulty variant: the loop ends at the first key that is not a string.
RECURSIVE ApplyPairsUntilInvalid(_, _, _)
ApplyPairsUntilInvalid(f, kv, i) ==
    IF i > Len(kv) \/ ~IsString(kv[i]) THEN f
    ELSE ApplyPairsUntilInvalid([x \in (DOMAIN f) \cup {kv[i].s} |->
                                    IF x = kv[i].s THEN kv[i + 1] ELSE f[x]], kv, i + 2)

ApplyPairsBreak(f, kv) == ApplyPairsUntilInvalid(f, kv, 1)

ApplyPairs(f, kv) == ApplyPairsFrom(f, kv, 1)

\* The 'key must be string' diagnostics of one AddFields loop, in order.
RECURSIVE InvalidKeyDiags(_, _)
InvalidKeyDiags(kv, i) ==
    IF i > Len(kv) THEN <<>>
    ELSE IF IsString(kv[i])
         THEN InvalidKeyDiags(kv, i + 2)
         ELSE <<[msg |-> "widelogger: key must be string", func |-> ""]>>
              \o InvalidKeyDiags(kv, i + 2)

\* The loop of AddWarning / AddError: for i := 0; i < len(kv)-1; i += 2.
\* A trailing unpaired argument is never read.
RECURSIVE EntryPairsFrom(_, _, _)
EntryPairsFrom(f, kv, i) ==
    IF i > Len(kv) - 1 THEN f
    ELSE IF IsString(kv[i])
         THEN EntryPairsFrom(SetField(f, kv[i].s, kv[i + 1]), kv, i + 2)
         ELSE EntryPairsFrom(f, kv, i + 2)

\* Warning{Message: message}, with Fields made only when pairs are given.
NewEntry(message, kv) ==
    [message |-> message,
     nilFields |-> (Len(kv) = 0),
     fields |-> IF Len(kv) = 0 THEN EmptyFields ELSE EntryPairsFrom(EmptyFields, kv, 1)]

(***************************************************************************)
(* collectFields and Logger.Log.                                           *)
(***************************************************************************)
\* Every key the model uses, in a fixed order that ranks them.
AllKeys ==
    <<"method", "path", "remote_addr", "query", "request_headers", "request_id",
      "panic", "status_code", "duration_ms", "context_error", "user_id", "a", "b">>

Reverse(q) == [i \in 1..Len(q) |-> q[Len(q) + 1 - i]]

\* for k, v := range container.fields: Go leaves the iteration order of a map
\* unspecified.  The model draws it from two orders, by rank and by reverse
\* rank, which is every order when the map holds at most two keys.
KeyOrders(S) ==
    LET asc == SelectSeq(AllKeys, LAMBDA k : k \in S)
    IN  {asc, Reverse(asc)}

\* attrs = append(attrs, k, v) for the keys in the given order.
RECURSIVE FieldPairs(_, _)
FieldPairs(f, order) ==
    IF order = <<>> THEN <<>>
    ELSE <<StrV(Head(order)), f[Head(order)]>> \o FieldPairs(f, Tail(order))

\* Faulty variant: the warnings pairs are appended for an empty sequence too.
WarningAttrsAlways(ws) ==
    <<StrV("warnings"), ListV(ws), StrV("warning_count"), IntV(Len(ws))>>

\* if len(container.warnings) > 0 { attrs = append(attrs, ...) }
WarningAttrs(ws) ==
    IF Len(ws) > 0
    THEN <<StrV("warnings"), ListV(ws), StrV("warning_count"), IntV(Len(ws))>>
    ELSE <<>>

\* if len(container.errors) > 0 { attrs = append(attrs, ...) }
ErrorAttrs(es) ==
    IF Len(es) > 0
    THEN <<StrV("errors"), ListV(es), StrV("error_count"), IntV(Len(es))>>
    ELSE <<>>

\* The body of collectFields under the lock, for one iteration order.
CollectAttrs(f, ws, es, order) ==
    FieldPairs(f, order) \o WarningAttrs(ws) \o ErrorAttrs(es)

\* Faulty variant: the call's own pairs come before the snapshot.
LogRecordExtraFirst(level, msg, contextFields, additionalFields) ==
    [level |-> level, msg |-> msg, attrs |-> additionalFields \o contextFields]

\* Logger.Log: the snapshot followed by the call's own pairs, as one record.
LogRecord(level, msg, contextFields, additionalFields) ==
    [level |-> level,
     msg |-> msg,
     attrs |-> IF Len(contextFields) > 0
               THEN contextFields \o additionalFields
               ELSE additionalFields]

\* Reading a record as its sink does: the value of the last pair with key k.
HasAttr(attrs, k) ==
    \E i \in 1..Len(attrs) : i % 2 = 1 /\ attrs[i] = StrV(k)

AttrValue(attrs, k) ==
    LET idx == {i \in 1..Len(attrs) : i % 2 = 1 /\ attrs[i] = StrV(k)}
        last == CHOOSE i \in idx : \A j \in idx : j <= i
    IN  attrs[last + 1]

(***************************************************************************)
(* Middleware configuration (functional options).                          *)
(***************************************************************************)
Paths == {"/health", "/api"}

HeaderNames == {"X-Request-ID", "User-Agent"}

\* A float64: a number (n / RateScale), an infinity or NaN.
Num(n) == [k |-> "num", n |-> n]

NaN == [k |-> "nan", n |-> 0]

NegInf == [k |-> "-inf", n |-> 0]

PosInf == [k |-> "+inf", n |-> 0]

\* a < b on float64: false whenever one side is NaN.
FloatLess(a, b) ==
    /\ a.k # "nan" /\ b.k # "nan"
    /\ a.k # "+inf" /\ b.k # "-inf"
    /\ \/ a.k = "-inf"
       \/ b.k = "+inf"
       \/ a.n < b.n

\* The value WithSuccessSampling(rate) stores in samplingRate:
\* if rate < 0 { rate = 0 } else if rate > 1 { rate = 1 }
ClampFloat(rate) ==
    IF FloatLess(rate, Num(0)) THEN Num(0)
    ELSE IF FloatLess(Num(RateScale), rate) THEN Num(RateScale)
    ELSE rate

\* WithSuccessSampling clamps its argument into [0,1]; here for an argument
\* that is a number.
ClampRate(rate) == ClampFloat(Num(rate)).n

\* defaultRequestIDConfig
DefaultRequestIDConfig ==
    [HeaderName |-> "X-Request-ID", customGenerator |-> FALSE, PropagateToResponse |-> TRUE]

\* WithRequestID(cfg...): arg is <<>> for a call without argument, or one
\* RequestIDConfig whose unset HeaderName is "" and unset Generator is nil.
WithRequestID(arg) ==
    IF Len(arg) > 0
    THEN [HeaderName |-> IF arg[1].HeaderName # "" THEN arg[1].HeaderName
                         ELSE DefaultRequestIDConfig.HeaderName,
          customGenerator |-> arg[1].customGenerator,
          PropagateToResponse |-> arg[1].PropagateToResponse]
    ELSE DefaultRequestIDConfig

\* The option lists a middleware may be built with.  Each of sampling,
\* excludePaths and requestID is <<>> when the option is not given and a
\* one-element sequence holding the option's argument when it is.
AllOptions ==
    [sampling : {<<>>} \cup {<<x>> : x \in -1..(RateScale + 1)},
     excludePaths : {<<>>, <<{"/health"}>>},
     onPanic : BOOLEAN,
     includeHeaders : {<<>>, <<"User-Agent">>},
     requestID : {<<>>, <<<<>>>>,
                  <<<<[HeaderName |-> "", customGenerator |-> FALSE,
                       PropagateToResponse |-> FALSE]>>>>,
                  <<<<[HeaderName |-> "", customGenerator |-> TRUE,
                       PropagateToResponse |-> TRUE]>>>>,
                  <<<<[HeaderName |-> "", customGenerator |-> TRUE,
                       PropagateToResponse |-> FALSE]>>>>,
                  <<<<[HeaderName |-> "X-Request-ID", customGenerator |-> FALSE,
                       PropagateToResponse |-> FALSE]>>>>}]

\* The option lists the model builds its middleware from: every choice of the
\* policy options (sampling, excluded paths, panic callback) with WithRequestID()
\* and WithIncludeRequestHeaders("User-Agent"), and every choice of these two
\* with no policy option given.
OptionSets ==
    {o \in AllOptions :
        \/ o.includeHeaders = <<"User-Agent">> /\ o.requestID = <<<<>>>>
        \/ o.sampling = <<>> /\ o.excludePaths = <<>> /\ ~o.onPanic}

\* Faulty variant: the config starts from the zero value of samplingRate.
MakeConfigZeroDefault(o) ==
    [samplingRate |-> IF Len(o.sampling) > 0 THEN ClampRate(o.sampling[1]) ELSE 0,
     nilPaths |-> (Len(o.excludePaths) = 0),
     excludePaths |-> IF Len(o.excludePaths) > 0 THEN o.excludePaths[1] ELSE {},
     onPanic |-> o.onPanic,
     includeHeaders |-> o.includeHeaders,
     requestIDEnabled |-> (Len(o.requestID) > 0),
     requestIDConfig |-> IF Len(o.requestID) > 0 THEN WithRequestID(o.requestID[1])
                         ELSE DefaultRequestIDConfig]

\* cfg := &config{samplingRate: 1.0}; for _, opt := range opts { opt(cfg) }
\* A nil excludePaths map, a nil onPanic and a nil requestIDConfig are the
\* values nilPaths = TRUE, onPanic = FALSE and requestID.enabled = FALSE.
MakeConfig(o) ==
    [samplingRate |-> IF Len(o.sampling) > 0 THEN ClampRate(o.sampling[1])
                      ELSE RateScale,
     nilPaths |-> (Len(o.excludePaths) = 0),
     excludePaths |-> IF Len(o.excludePaths) > 0 THEN o.excludePaths[1] ELSE {},
     onPanic |-> o.onPanic,
     includeHeaders |-> o.includeHeaders,
     requestIDEnabled |-> (Len(o.requestID) > 0),
     requestIDConfig |-> IF Len(o.requestID) > 0 THEN WithRequestID(o.requestID[1])
                         ELSE DefaultRequestIDConfig]

\* Faulty variant: the nil check of the exclusion test inverted.
IsExcludedNilCheckInverted(c, path) == c.nilPaths /\ path \in c.excludePaths

\* cfg.excludePaths != nil && cfg.excludePaths[r.URL.Path]
IsExcluded(c, path) == ~c.nilPaths /\ path \in c.excludePaths

(***************************************************************************)
(* Severity classification and the sampling gate.                          *)
(***************************************************************************)
\* Faulty variant: the warnings case placed before the errors case.
ClassifyWarningsFirst(hasErrors, hasWarnings, statusCode) ==
    IF hasWarnings
    THEN [level |-> LevelWarn, msg |-> "http_request_completed_with_warnings"]
    ELSE IF hasErrors
    THEN [level |-> LevelError, msg |-> "http_request_completed_with_errors"]
    ELSE IF statusCode >= 500
    THEN [level |-> LevelError, msg |-> "http_request_completed"]
    ELSE IF statusCode >= 400
    THEN [level |-> LevelWarn, msg |-> "http_request_completed"]
    ELSE [level |-> LevelInfo, msg |-> "http_request_completed"]

\* The switch of Middleware: the first case that holds is taken.
Classify(hasErrors, hasWarnings, statusCode) ==
    IF hasErrors
    THEN [level |-> LevelError, msg |-> "http_request_completed_with_errors"]
    ELSE IF hasWarnings
    THEN [level |-> LevelWarn, msg |-> "http_request_completed_with_warnings"]
    ELSE IF statusCode >= 500
    THEN [level |-> LevelError, msg |-> "http_request_completed"]
    ELSE IF statusCode >= 400
    THEN [level |-> LevelWarn, msg |-> "http_request_completed"]
    ELSE [level |-> LevelInfo, msg |-> "http_request_completed"]

\* Faulty variant: the gate samples every level.
NeedsDrawAnyLevel(level, rate) == rate < RateScale

\* if logLevel == slog.LevelInfo && cfg.samplingRate < 1.0
NeedsDraw(level, rate) == level = LevelInfo /\ rate < RateScale

\* shouldLog: false only when a draw is made and Float64() > samplingRate.
ShouldLog(level, rate, d) == ~(NeedsDraw(level, rate) /\ d > rate)

(***************************************************************************)
(* State.                                                                  *)
(***************************************************************************)
VARIABLES
    \* the container bound to the context (shared by Spec and SpecConc)
    bound,          \* TRUE when the context carries a container
    fields,         \* container.fields
    warnings,       \* container.warnings
    errors,         \* container.errors
    diag,           \* records written through the process-wide default logger
    \* one request through the middleware (Spec)
    opts,           \* the options Middleware(next, opts...) was called with
    cfg,            \* the middleware's config, fixed at construction
    pc,             \* where the middleware's handler function is
    req,            \* the request being served
    ctxRequestID,   \* the value under requestIDContextKey, "" when absent
    seenRequestID,  \* what GetRequestID(r.Context()) returns to the downstream handler
    rw,             \* the wrapped responseWriter: statusCode, written
    resp,           \* the underlying http.ResponseWriter
    handlerCalls,   \* the calls of next.ServeHTTP
    ops,            \* calls made by the downstream handler so far
    handlerFields,  \* the lists the downstream handler passed to AddFields
    log,            \* records written through cfg.logger
    generatorCalls, \* calls of requestIDConfig.Generator
    panicVal,       \* the value recover() returned, "" when none
    callbackCalls,  \* the values cfg.onPanic was called with
    propagated,     \* the panic value that reached the middleware's caller
    outcome,        \* logLevel, logMessage, shouldLog and the draw of Float64()
    \* goroutines sharing the container (SpecConc)
    mu,             \* container.mu: the goroutine holding it, 0 when free
    gpc,            \* each goroutine's position in its call
    gcall,          \* each goroutine's call and arguments
    gtmp,           \* each goroutine's local variables
    result,         \* what the reader's collectFields returned
    hist,           \* the container states that existed during the reader's call
    \* one goroutine calling the package API in sequence (SpecApi)
    apiCalls,       \* calls made so far
    apiLast,        \* the last call: its arguments, the state before it, its result
    defaultLogger,  \* the process-wide default logger
    sinkLog,        \* records written by Logger.Log, each with the sink it went to
    \* calls on one wrapped responseWriter (SpecWriter)
    wcalls,         \* the WriteHeader and Write calls made so far
    \* containers as objects of the heap (SpecCtx, SpecReqs)
    heap,           \* the containers NewContext has made, in order of allocation
    ctxs,           \* the contexts a caller has derived with NewContext
    ctxLast,        \* the caller's last call: its context and the heap before it
    rq,             \* the requests being served at the same time
    rlog,           \* the record written for each of them
    \* the construction of one middleware (SpecOpts)
    optList,        \* the opts argument of Middleware(next, opts...)
    optPos,         \* how many options the loop has applied
    built,          \* the config under construction
    \* goroutines using the container and the default logger (SpecLocks)
    lpc,            \* each goroutine's position in its call
    lcall,          \* each goroutine's call and arguments
    lgot,           \* each goroutine's locals: the logger and the snapshot it obtained
    lset,           \* the loggers passed to SetDefaultLogger calls that reached the lock
    rwWriter,       \* defaultLoggerMu: the goroutine that holds or awaits the write lock
    rwReaders,      \* defaultLoggerMu: the goroutines holding the read lock
    \* producers that outlive the downstream handler (SpecFin)
    bgpc,           \* each background producer: "idle" before its call, "done" after
    fin,            \* the middleware's locals: what HasErrors and HasWarnings returned
    \* one middleware instance and the default logger (SpecBind)
    mw,             \* the instance Middleware(...) returned: its cfg.logger
    bindCalls,      \* calls made so far
    \* slices as headers over backing arrays (SpecSnap)
    arrs,           \* the backing arrays allocated so far
    hw,             \* container.warnings: pointer, length and capacity
    he,             \* container.errors: pointer, length and capacity
    lastSnap,       \* the sequence the last collectFields call returned
    snapView,       \* what that sequence read as when it was returned
    snapCalls       \* calls made so far

cvars == <<bound, fields, warnings, errors, diag>>

mvars == <<opts, cfg, pc, req, ctxRequestID, seenRequestID, rw, resp, handlerCalls, ops,
           handlerFields, log,
           generatorCalls, panicVal, callbackCalls, propagated, outcome>>

gvars == <<mu, gpc, gcall, gtmp, result, hist>>

avars == <<apiCalls, apiLast, defaultLogger, sinkLog, wcalls>>

hvars == <<heap, ctxs, ctxLast, rq, rlog>>

ovars == <<optList, optPos, built>>

lvars == <<lpc, lcall, lgot, lset, rwWriter, rwReaders>>

fvars == <<bgpc, fin>>

bvars == <<mw, bindCalls>>

svars == <<arrs, hw, he, lastSnap, snapView, snapCalls>>

xvars == <<ovars, lvars, fvars, bvars, svars>>

vars == <<cvars, mvars, gvars, avars, hvars, xvars>>

\* The container's content as one value.
Content == [fields |-> fields, warnings |-> warnings, errors |-> errors]

(***************************************************************************)
(* The accumulation API as one call made by sequential code.               *)
(***************************************************************************)
Diag(msg, fn) == [msg |-> msg, func |-> fn]

\* AddFields: the diagnostics it writes and the fields it leaves.
AddFieldsDiags(b, kv) ==
    IF Len(kv) = 0 THEN <<>>
    ELSE IF ~b THEN <<Diag("widelogger: context not initialized", "AddFields")>>
    ELSE IF Len(kv) % 2 # 0 THEN <<Diag("widelogger: odd number of arguments", "AddFields")>>
    ELSE InvalidKeyDiags(kv, 1)

\* Faulty variant: an odd list has its complete pairs applied.
AddFieldsResultLenient(b, f, kv) ==
    IF Len(kv) = 0 \/ ~b THEN f ELSE EntryPairsFrom(f, kv, 1)

AddFieldsResult(b, f, kv) ==
    IF Len(kv) = 0 \/ ~b \/ Len(kv) % 2 # 0 THEN f ELSE ApplyPairs(f, kv)

\* AddWarning / AddError: the diagnostics and the sequence they leave.
AddEntryDiags(b, fn) ==
    IF ~b THEN <<Diag("widelogger: context not initialized", fn)>> ELSE <<>>

\* Faulty variant: the new entry is put in front of the sequence.
AddEntryResultPrepend(b, entries, message, kv) ==
    IF ~b THEN entries ELSE <<NewEntry(message, kv)>> \o entries

AddEntryResult(b, entries, message, kv) ==
    IF ~b THEN entries ELSE Append(entries, NewEntry(message, kv))

\* HasWarnings / HasErrors
HasEntries(b, entries) == b /\ Len(entries) > 0

(***************************************************************************)
(* The response writers.                                                   *)
(***************************************************************************)
StatusOK == 200

\* The underlying writer: the first WriteHeader fixes the status and sends
\* the headers set so far; a Write before any WriteHeader sends 200.
RespWriteHeader(r, code) ==
    IF r.wroteHeader THEN r
    ELSE [r EXCEPT !.wroteHeader = TRUE, !.status = code, !.sentHeader = r.header]

RespWrite(r) ==
    LET h == RespWriteHeader(r, StatusOK)
    IN  [h EXCEPT !.writes = h.writes + 1]

\* Faulty variant: every WriteHeader overwrites the captured status.
WrappedWriteHeaderLast(w, code) == [statusCode |-> code, written |-> TRUE]

\* responseWriter.WriteHeader: the captured status is set once.
WrappedWriteHeader(w, code) ==
    IF ~w.written THEN [statusCode |-> code, written |-> TRUE] ELSE w

\* responseWriter.Write: calls rw.WriteHeader(200) when nothing was written.
WrappedWrite(w) ==
    IF ~w.written THEN WrappedWriteHeader(w, StatusOK) ELSE w

(***************************************************************************)
(* Spec: one request through the middleware.                               *)
(***************************************************************************)
Procs == 1..NumProducers

Reader == NumProducers + 1

Headers(id, agent) == [h \in HeaderNames |-> IF h = "X-Request-ID" THEN id ELSE agent]

\* The requests the model serves.
Requests ==
    {[path |-> "/health", query |-> "", headers |-> Headers("", "")],
     [path |-> "/api", query |-> "", headers |-> Headers("", "")],
     [path |-> "/api", query |-> "q=1", headers |-> Headers("client-id", "curl")]}

NoRequest == [path |-> "", query |-> "", headers |-> Headers("", "")]

\* What the downstream handler may pass to the accumulation API.
\* The last list writes keys the middleware writes as well.
HandlerOverrides ==
    <<StrV("status_code"), IntV(1), StrV("method"), StrV("PATCH"),
      StrV("request_id"), StrV("handler-id")>>

HandlerFieldArgs ==
    {<<StrV("user_id"), StrV("u1")>>,
     <<IntV(1), StrV("x"), StrV("b"), StrV("y")>>,
     HandlerOverrides}

HandlerWarningArgs == {<<StrV("a"), StrV("x")>>}

HandlerErrorArgs == {<<>>}

\* Status codes the downstream handler may write.
StatusCodes == {399, 400, 499, 500}

PanicVals == {"boom", "oops"}

Durations == {3}

\* ctx.Err().Error(), "" when ctx.Err() is nil.
CtxErrs == {"", "context canceled"}

NoCall == [op |-> "", message |-> "", kv |-> <<>>]

NoEntry == [message |-> "", nilFields |-> TRUE, fields |-> EmptyFields]

\* The middleware's variables while no request is served.
IdleMiddleware ==
    /\ opts = [sampling |-> <<>>, excludePaths |-> <<>>, onPanic |-> FALSE,
               includeHeaders |-> <<>>, requestID |-> <<>>]
    /\ cfg = MakeConfig(opts)
    /\ pc = "idle"
    /\ req = NoRequest
    /\ ctxRequestID = ""
    /\ seenRequestID = ""
    /\ rw = [statusCode |-> StatusOK, written |-> FALSE]
    /\ resp = [header |-> Headers("", ""), wroteHeader |-> FALSE,
               status |-> 0, sentHeader |-> Headers("", ""), writes |-> 0]
    /\ handlerCalls = <<>>
    /\ ops = 0
    /\ handlerFields = <<>>
    /\ log = <<>>
    /\ generatorCalls = 0
    /\ panicVal = ""
    /\ callbackCalls = <<>>
    /\ propagated = ""
    /\ outcome = [level |-> "", msg |-> "", shouldLog |-> FALSE, draw |-> -1]

\* A producer's local variables: the loop index i of AddFields, the entry
\* built by AddWarning / AddError, and the slice value append works on.
NoLocals == [i |-> 0, entry |-> NoEntry, slice |-> <<>>]

\* The sink of slog.New(slog.NewJSONHandler(os.Stdout, nil)).
StdoutLogger == "stdout"

NoApiCall ==
    [op |-> "", ctx |-> "", message |-> "", kv |-> <<>>, logger |-> "",
     pre |-> [fields |-> EmptyFields, warnings |-> <<>>, errors |-> <<>>],
     preDiag |-> 0, preDefault |-> "", preSink |-> 0,
     retBool |-> FALSE, retAttrs |-> <<>>, panicked |-> FALSE]

IdleApi ==
    /\ apiCalls = 0
    /\ apiLast = NoApiCall
    /\ defaultLogger = StdoutLogger
    /\ sinkLog = <<>>
    /\ wcalls = <<>>

\* Requests served at the same time by one middleware (SpecReqs).
Reqs == 1..NumRequests

NoCtxCall == [op |-> "", ctx |-> 0, kv |-> <<>>, pre |-> <<>>, n |-> 0]

NoRecord == [level |-> "", msg |-> "", attrs |-> <<>>]

\* calls counts the accumulation calls the handler of the request has made.
IdleRequest ==
    [pc |-> "idle", ctx |-> 0,
     calls |-> [op \in {"AddFields", "AddWarning", "AddError"} |-> 0]]

IdleHeap ==
    /\ heap = <<>>
    /\ ctxs = <<>>
    /\ ctxLast = NoCtxCall
    /\ rq = [i \in Reqs |-> IdleRequest]
    /\ rlog = [i \in Reqs |-> NoRecord]

\* cfg := &config{samplingRate: 1.0}
NewConfig == [samplingRate |-> Num(RateScale), onPanic |-> FALSE]

IdleOptions ==
    /\ optList = <<>>
    /\ optPos = 0
    /\ built = NewConfig

\* Goroutines of SpecLocks.
Callers == 1..NumCallers

NoLockCall == [op |-> "", message |-> "", kv |-> <<>>, logger |-> ""]

NoLogger == [logger |-> "", attrs |-> <<>>]

IdleLocks ==
    /\ lpc = [w \in Callers |-> "idle"]
    /\ lcall = [w \in Callers |-> NoLockCall]
    /\ lgot = [w \in Callers |-> NoLogger]
    /\ lset = {}
    /\ rwWriter = 0
    /\ rwReaders = {}

NoFinLocals == [hasErrors |-> FALSE, hasWarnings |-> FALSE]

IdleFin ==
    /\ bgpc = [p \in Procs |-> "idle"]
    /\ fin = NoFinLocals

\* No middleware has been built.
NoMiddleware == [built |-> FALSE, logger |-> "", override |-> FALSE, defaultAtBuild |-> ""]

IdleBind ==
    /\ mw = NoMiddleware
    /\ bindCalls = 0

\* make([]Warning, 0): a slice of length and capacity 0.
EmptySlice == [ptr |-> 0, len |-> 0, cap |-> 0]

NoSnapshot ==
    [taken |-> FALSE, pairs |-> <<>>, warnings |-> EmptySlice, errors |-> EmptySlice,
     warning_count |-> 0, error_count |-> 0]

IdleSnap ==
    /\ arrs = <<>>
    /\ hw = EmptySlice
    /\ he = EmptySlice
    /\ lastSnap = NoSnapshot
    /\ snapView = <<>>
    /\ snapCalls = 0

IdleExtra ==
    /\ IdleOptions
    /\ IdleLocks
    /\ IdleFin
    /\ IdleBind
    /\ IdleSnap

IdleGoroutines ==
    /\ mu = 0
    /\ gpc = [p \in Procs \cup {Reader} |-> "idle"]
    /\ gcall = [p \in Procs |-> NoCall]
    /\ gtmp = [p \in Procs |-> NoLocals]
    /\ result = <<>>
    /\ hist = {}

Init ==
    /\ opts \in OptionSets
    /\ cfg = MakeConfig(opts)
    /\ pc = "idle"
    /\ req = NoRequest
    /\ bound = FALSE
    /\ fields = EmptyFields
    /\ warnings = <<>>
    /\ errors = <<>>
    /\ diag = <<>>
    /\ ctxRequestID = ""
    /\ seenRequestID = ""
    /\ rw = [statusCode |-> StatusOK, written |-> FALSE]
    /\ resp = [header |-> [h \in HeaderNames |-> ""], wroteHeader |-> FALSE,
               status |-> 0, sentHeader |-> [h \in HeaderNames |-> ""], writes |-> 0]
    /\ handlerCalls = <<>>
    /\ ops = 0
    /\ handlerFields = <<>>
    /\ log = <<>>
    /\ generatorCalls = 0
    /\ panicVal = ""
    /\ callbackCalls = <<>>
    /\ propagated = ""
    /\ outcome = [level |-> "", msg |-> "", shouldLog |-> FALSE, draw |-> -1]
    /\ IdleGoroutines
    /\ IdleApi
    /\ IdleHeap
    /\ IdleExtra

\* requestIDConfig.Generator(): an opaque identifier.
GeneratedID(c) == IF c.requestIDConfig.customGenerator THEN "custom-id" ELSE "uuid-v4"

\* Faulty variant: a configured header is stored whatever its value.
IncludedHeadersWithEmpty(c, r) ==
    [h \in {c.includeHeaders[i] : i \in 1..Len(c.includeHeaders)} |-> r.headers[h]]

\* The headers map of the request_headers field.
IncludedHeaders(c, r) ==
    LET names == {c.includeHeaders[i] : i \in 1..Len(c.includeHeaders)}
    IN  [h \in {x \in names : r.headers[x] # ""} |-> r.headers[h]]

\* Faulty variant: method, path and remote_addr are not seeded.
SeedFieldsNoBase(c, r, rid) ==
    IF c.requestIDEnabled
    THEN AddFieldsResult(TRUE, EmptyFields, <<StrV("request_id"), StrV(rid)>>)
    ELSE EmptyFields

\* The fields seeded before the downstream handler runs.
SeedFields(c, r, rid) ==
    LET f1 == IF c.requestIDEnabled
              THEN AddFieldsResult(TRUE, EmptyFields, <<StrV("request_id"), StrV(rid)>>)
              ELSE EmptyFields
        f2 == AddFieldsResult(TRUE, f1,
                  <<StrV("method"), StrV("GET"), StrV("path"), StrV(r.path),
                    StrV("remote_addr"), StrV("192.0.2.1:1234")>>)
        f3 == IF r.query # ""
              THEN AddFieldsResult(TRUE, f2, <<StrV("query"), StrV(r.query)>>)
              ELSE f2
        hs == IncludedHeaders(c, r)
    IN  IF Len(c.includeHeaders) > 0 /\ DOMAIN hs # {}
        THEN AddFieldsResult(TRUE, f3, <<StrV("request_headers"), MapV(hs)>>)
        ELSE f3

\* Faulty variant: the generator is called whether or not the request
\* carries an identifier.
ResolveRequestIDAlwaysGenerate(c, r) ==
    IF ~c.requestIDEnabled THEN [id |-> "", generated |-> 0]
    ELSE IF r.headers[c.requestIDConfig.HeaderName] # ""
         THEN [id |-> r.headers[c.requestIDConfig.HeaderName], generated |-> 1]
         ELSE [id |-> GeneratedID(c), generated |-> 1]

\* requestID := r.Header.Get(HeaderName); if requestID == "" { requestID =
\* Generator() }: the identifier and the number of calls of the generator.
ResolveRequestID(c, r) ==
    IF ~c.requestIDEnabled THEN [id |-> "", generated |-> 0]
    ELSE IF r.headers[c.requestIDConfig.HeaderName] # ""
         THEN [id |-> r.headers[c.requestIDConfig.HeaderName], generated |-> 0]
         ELSE [id |-> GeneratedID(c), generated |-> 1]

\* Faulty variant: the identifier is never set on the response.
SetResponseRequestIDNever(c, rsp, rid) == rsp

\* if PropagateToResponse { w.Header().Set(HeaderName, requestID) }
SetResponseRequestID(c, rsp, rid) ==
    IF c.requestIDEnabled /\ c.requestIDConfig.PropagateToResponse
    THEN [rsp EXCEPT !.header[c.requestIDConfig.HeaderName] = rid]
    ELSE rsp

\* The context of the inbound request: not nil, no request ID stored.
RequestContext == [nil |-> FALSE, hasID |-> FALSE, id |-> ""]

\* context.WithValue(ctx, requestIDContextKey{}, requestID)
WithRequestIDValue(ctx, id) == [ctx EXCEPT !.hasID = TRUE, !.id = id]

\* The context handed to the downstream handler.
HandlerContext(c, rid) ==
    IF c.requestIDEnabled THEN WithRequestIDValue(RequestContext, rid) ELSE RequestContext

\* Faulty variant: the lookup uses a key under which nothing is stored.
GetRequestIDWrongKey(ctx) == ""

\* GetRequestID(ctx): "" for nil and for a context without the value.
GetRequestID(ctx) ==
    IF ctx.nil THEN "" ELSE IF ctx.hasID THEN ctx.id ELSE ""

\* The middleware's handler function up to the call of next.ServeHTTP; the
\* downstream handler starts by reading GetRequestID(r.Context()).
MwBegin(r) ==
    /\ pc = "idle"
    /\ req' = r
    /\ IF IsExcluded(cfg, r.path)
       THEN /\ pc' = "handler_excluded"
            /\ handlerCalls' = Append(handlerCalls, [writer |-> "original", request |-> "original"])
            /\ seenRequestID' = GetRequestID(RequestContext)
            /\ UNCHANGED <<bound, fields, ctxRequestID, resp, generatorCalls>>
       ELSE LET rid == ResolveRequestID(cfg, r)
            IN  /\ pc' = "handler"
                /\ bound' = TRUE
                /\ generatorCalls' = generatorCalls + rid.generated
                /\ ctxRequestID' = rid.id
                /\ seenRequestID' = GetRequestID(HandlerContext(cfg, rid.id))
                /\ fields' = SeedFields(cfg, r, rid.id)
                /\ resp' = SetResponseRequestID(cfg, resp, rid.id)
                /\ handlerCalls' = Append(handlerCalls,
                                          [writer |-> "wrapped", request |-> "with_context"])
    /\ UNCHANGED <<opts, cfg, warnings, errors, diag, rw, ops, handlerFields, log, panicVal,
                   callbackCalls, propagated, outcome, gvars, avars, hvars, xvars>>

InHandler == pc \in {"handler", "handler_excluded"}

HandlerStep == InHandler /\ ops < MaxHandlerOps /\ ops' = ops + 1

\* The downstream handler calls AddFields(r.Context(), kv...).
HAddFields(kv) ==
    /\ HandlerStep
    /\ fields' = AddFieldsResult(bound, fields, kv)
    /\ diag' = diag \o AddFieldsDiags(bound, kv)
    /\ handlerFields' = Append(handlerFields, kv)
    /\ UNCHANGED <<opts, cfg, pc, req, bound, warnings, errors, ctxRequestID, seenRequestID, rw, resp,
                   handlerCalls, log, generatorCalls, panicVal, callbackCalls,
                   propagated, outcome, gvars, avars, hvars, xvars>>

\* The downstream handler calls AddWarning(r.Context(), "slow query", kv...).
HAddWarning(kv) ==
    /\ HandlerStep
    /\ warnings' = AddEntryResult(bound, warnings, "slow query", kv)
    /\ diag' = diag \o AddEntryDiags(bound, "AddWarning")
    /\ UNCHANGED <<opts, cfg, pc, req, bound, fields, errors, ctxRequestID, seenRequestID, rw, resp,
                   handlerCalls, handlerFields, log, generatorCalls, panicVal, callbackCalls,
                   propagated, outcome, gvars, avars, hvars, xvars>>

\* The downstream handler calls AddError(r.Context(), "db timeout", kv...).
HAddError(kv) ==
    /\ HandlerStep
    /\ errors' = AddEntryResult(bound, errors, "db timeout", kv)
    /\ diag' = diag \o AddEntryDiags(bound, "AddError")
    /\ UNCHANGED <<opts, cfg, pc, req, bound, fields, warnings, ctxRequestID, seenRequestID, rw, resp,
                   handlerCalls, handlerFields, log, generatorCalls, panicVal, callbackCalls,
                   propagated, outcome, gvars, avars, hvars, xvars>>

\* The downstream handler calls w.WriteHeader(code) on the writer it was given.
HWriteHeader(code) ==
    /\ HandlerStep
    /\ rw' = IF pc = "handler" THEN WrappedWriteHeader(rw, code) ELSE rw
    /\ resp' = RespWriteHeader(resp, code)
    /\ UNCHANGED <<opts, cfg, pc, req, cvars, ctxRequestID, seenRequestID, handlerCalls, handlerFields, log,
                   generatorCalls, panicVal, callbackCalls, propagated, outcome, gvars, avars, hvars, xvars>>

\* The downstream handler calls w.Write(b) on the writer it was given.
HWrite ==
    /\ HandlerStep
    /\ rw' = IF pc = "handler" THEN WrappedWrite(rw) ELSE rw
    /\ resp' = RespWrite(resp)
    /\ UNCHANGED <<opts, cfg, pc, req, cvars, ctxRequestID, seenRequestID, handlerCalls, handlerFields, log,
                   generatorCalls, panicVal, callbackCalls, propagated, outcome, gvars, avars, hvars, xvars>>

\* The downstream handler panics.  On an excluded path no recover is
\* installed and the panic reaches the middleware's caller at once.
HPanic(v) ==
    /\ InHandler
    /\ IF pc = "handler"
       THEN pc' = "recovering" /\ panicVal' = v /\ UNCHANGED propagated
       ELSE pc' = "done" /\ propagated' = v /\ UNCHANGED panicVal
    /\ UNCHANGED <<opts, cfg, req, cvars, ctxRequestID, seenRequestID, rw, resp, handlerCalls, handlerFields, ops, log,
                   generatorCalls, callbackCalls, outcome, gvars, avars, hvars, xvars>>

\* The downstream handler returns.
HReturn ==
    /\ InHandler
    /\ pc' = IF pc = "handler" THEN "returned" ELSE "done"
    /\ UNCHANGED <<opts, cfg, req, cvars, ctxRequestID, seenRequestID, rw, resp, handlerCalls, handlerFields, ops, log,
                   generatorCalls, panicVal, callbackCalls, propagated, outcome, gvars, avars, hvars, xvars>>

\* Faulty variant: a closing field is stored only under a key that is free.
ClosingFieldsKeepExisting(b, f, code, dur) ==
    LET g == AddFieldsResult(b, EmptyFields,
                 <<StrV("status_code"), IntV(code), StrV("duration_ms"), IntV(dur)>>)
    IN  [k \in DOMAIN f \cup DOMAIN g |-> IF k \in DOMAIN f THEN f[k] ELSE g[k]]

\* AddFields(ctx, "status_code", wrapped.statusCode, "duration_ms", ...)
ClosingFields(b, f, code, dur) ==
    AddFieldsResult(b, f, <<StrV("status_code"), IntV(code), StrV("duration_ms"), IntV(dur)>>)

\* The middleware's handler function after next.ServeHTTP returned: the
\* closing fields, the classification, the sampling gate and the record.
MwComplete ==
    /\ pc = "returned"
    /\ \E dur \in Durations, ctxErr \in CtxErrs, d \in 0..(RateScale - 1) :
          LET f1 == ClosingFields(bound, fields, rw.statusCode, dur)
              f2 == IF ctxErr # ""
                    THEN AddFieldsResult(bound, f1, <<StrV("context_error"), StrV(ctxErr)>>)
                    ELSE f1
              c == Classify(HasEntries(bound, errors), HasEntries(bound, warnings),
                            rw.statusCode)
              drawn == NeedsDraw(c.level, cfg.samplingRate)
              sl == ShouldLog(c.level, cfg.samplingRate, d)
          IN  /\ fields' = f2
              /\ outcome' = [level |-> c.level, msg |-> c.msg, shouldLog |-> sl,
                             draw |-> IF drawn THEN d ELSE -1]
              /\ IF sl
                 THEN \E order \in KeyOrders(DOMAIN f2) :
                         log' = Append(log, LogRecord(c.level, c.msg,
                                    CollectAttrs(f2, warnings, errors, order), <<>>))
                 ELSE log' = log
    /\ pc' = "done"
    /\ UNCHANGED <<opts, cfg, req, bound, warnings, errors, diag, ctxRequestID, seenRequestID, rw, resp,
                   handlerCalls, handlerFields, ops, generatorCalls, panicVal, callbackCalls,
                   propagated, gvars, avars, hvars, xvars>>

\* Faulty variant: the panic record is written before the field panic is stored.
MwRecoverLogBeforeField ==
    /\ pc = "recovering"
    /\ fields' = AddFieldsResult(bound, fields, <<StrV("panic"), StrV(panicVal)>>)
    /\ \E order \in KeyOrders(DOMAIN fields) :
          log' = Append(log, LogRecord(LevelError, "http_request_panic",
                     CollectAttrs(fields, warnings, errors, order), <<>>))
    /\ pc' = "panic_logged"
    /\ UNCHANGED <<opts, cfg, req, bound, warnings, errors, diag, ctxRequestID, seenRequestID, rw, resp,
                   handlerCalls, handlerFields, ops, generatorCalls, panicVal, callbackCalls,
                   propagated, outcome, gvars, avars, hvars, xvars>>

\* Faulty variant: the panic record goes through the sampling gate of the
\* completion record.
MwRecoverLogSampled ==
    /\ pc = "recovering"
    /\ LET f1 == AddFieldsResult(bound, fields, <<StrV("panic"), StrV(panicVal)>>)
       IN  /\ fields' = f1
           /\ \E d \in 0..(RateScale - 1) :
                 IF cfg.samplingRate < RateScale /\ d > cfg.samplingRate
                 THEN log' = log
                 ELSE \E order \in KeyOrders(DOMAIN f1) :
                         log' = Append(log, LogRecord(LevelError, "http_request_panic",
                                    CollectAttrs(f1, warnings, errors, order), <<>>))
    /\ pc' = "panic_logged"
    /\ UNCHANGED <<opts, cfg, req, bound, warnings, errors, diag, ctxRequestID, seenRequestID, rw, resp,
                   handlerCalls, handlerFields, ops, generatorCalls, panicVal, callbackCalls,
                   propagated, outcome, gvars, avars, hvars, xvars>>

\* The deferred function, first half: recover() returned a value; it is
\* stored as field panic and the panic record is written.
MwRecoverLog ==
    /\ pc = "recovering"
    /\ LET f1 == AddFieldsResult(bound, fields, <<StrV("panic"), StrV(panicVal)>>)
       IN  /\ fields' = f1
           /\ \E order \in KeyOrders(DOMAIN f1) :
                 log' = Append(log, LogRecord(LevelError, "http_request_panic",
                            CollectAttrs(f1, warnings, errors, order), <<>>))
    /\ pc' = "panic_logged"
    /\ UNCHANGED <<opts, cfg, req, bound, warnings, errors, diag, ctxRequestID, seenRequestID, rw, resp,
                   handlerCalls, handlerFields, ops, generatorCalls, panicVal, callbackCalls,
                   propagated, outcome, gvars, avars, hvars, xvars>>

\* Faulty variant: the deferred function swallows the panic, and the handler function
\* goes on to its completion record.
MwPanicDispatchFallthrough ==
    /\ pc = "panic_logged"
    /\ IF cfg.onPanic
       THEN callbackCalls' = Append(callbackCalls, panicVal)
       ELSE UNCHANGED callbackCalls
    /\ pc' = "returned"
    /\ UNCHANGED <<opts, cfg, req, cvars, ctxRequestID, seenRequestID, rw, resp, handlerCalls, handlerFields, ops, log,
                   generatorCalls, panicVal, propagated, outcome, gvars, avars, hvars, xvars>>

\* Faulty variant: without a callback the panic is not raised again.
MwPanicDispatchSwallow ==
    /\ pc = "panic_logged"
    /\ IF cfg.onPanic
       THEN callbackCalls' = Append(callbackCalls, panicVal)
       ELSE UNCHANGED callbackCalls
    /\ pc' = "done"
    /\ UNCHANGED <<opts, cfg, req, cvars, ctxRequestID, seenRequestID, rw, resp, handlerCalls, handlerFields, ops, log,
                   generatorCalls, panicVal, propagated, outcome, gvars, avars, hvars, xvars>>

\* The deferred function, second half: cfg.onPanic(ctx, recovered) when a
\* callback is configured, panic(recovered) otherwise.
MwPanicDispatch ==
    /\ pc = "panic_logged"
    /\ IF cfg.onPanic
       THEN callbackCalls' = Append(callbackCalls, panicVal) /\ UNCHANGED propagated
       ELSE propagated' = panicVal /\ UNCHANGED callbackCalls
    /\ pc' = "done"
    /\ UNCHANGED <<opts, cfg, req, cvars, ctxRequestID, seenRequestID, rw, resp, handlerCalls, handlerFields, ops, log,
                   generatorCalls, panicVal, outcome, gvars, avars, hvars, xvars>>

Next ==
    \/ \E r \in Requests : MwBegin(r)
    \/ \E kv \in HandlerFieldArgs : HAddFields(kv)
    \/ \E kv \in HandlerWarningArgs : HAddWarning(kv)
    \/ \E kv \in HandlerErrorArgs : HAddError(kv)
    \/ \E code \in StatusCodes : HWriteHeader(code)
    \/ HWrite
    \/ \E v \in PanicVals : HPanic(v)
    \/ HReturn
    \/ MwComplete
    \/ MwRecoverLog
    \/ MwPanicDispatch

Spec == Init /\ [][Next]_vars

(***************************************************************************)
(* SpecConc: goroutines sharing one container.                             *)
(*                                                                         *)
(* Each producer makes one call of AddFields, AddWarning or AddError and   *)
(* the reader makes one call of collectFields, all on the same context.    *)
(* A step is one statement of the function; container.mu serialises the    *)
(* statements between Lock and Unlock.                                     *)
(***************************************************************************)
\* The message argument each producer passes, so that entries can be told apart.
MessageOf(p) == <<"m1", "m2", "m3", "m4", "m5">>[p]

\* The calls a producer may make.
ProducerCalls(p) ==
    {[op |-> "AddWarning", message |-> MessageOf(p), kv |-> <<>>],
     [op |-> "AddError", message |-> MessageOf(p), kv |-> <<StrV("a"), StrV("x")>>],
     [op |-> "AddFields", message |-> "", kv |-> <<StrV("a"), StrV(MessageOf(p))>>],
     [op |-> "AddFields", message |-> "", kv |-> <<IntV(1), StrV("x"), StrV("b"), StrV("y")>>],
     [op |-> "AddFields", message |-> "", kv |-> <<StrV("a")>>],
     [op |-> "AddFields", message |-> "", kv |-> <<>>]}

\* Faulty variant: a Lock that never waits.
MuAlwaysAvailable(m) == TRUE

\* sync.Mutex.Lock returns only when no goroutine holds the mutex.
MuAvailable(m) == m = 0

ReaderInCall == gpc[Reader] \notin {"idle", "done"}

\* hist collects every content the container has while the reader's call runs.
Observe(c) == hist' = IF ReaderInCall THEN hist \cup {c} ELSE hist

InitConc ==
    /\ opts = [sampling |-> <<>>, excludePaths |-> <<>>, onPanic |-> FALSE,
               includeHeaders |-> <<>>, requestID |-> <<>>]
    /\ cfg = MakeConfig(opts)
    /\ pc = "idle"
    /\ req = NoRequest
    /\ bound \in BOOLEAN
    /\ fields = EmptyFields
    /\ warnings = <<>>
    /\ errors = <<>>
    /\ diag = <<>>
    /\ ctxRequestID = ""
    /\ seenRequestID = ""
    /\ rw = [statusCode |-> StatusOK, written |-> FALSE]
    /\ resp = [header |-> Headers("", ""), wroteHeader |-> FALSE,
               status |-> 0, sentHeader |-> Headers("", ""), writes |-> 0]
    /\ handlerCalls = <<>>
    /\ ops = 0
    /\ handlerFields = <<>>
    /\ log = <<>>
    /\ generatorCalls = 0
    /\ panicVal = ""
    /\ callbackCalls = <<>>
    /\ propagated = ""
    /\ outcome = [level |-> "", msg |-> "", shouldLog |-> FALSE, draw |-> -1]
    /\ IdleGoroutines
    /\ IdleApi
    /\ IdleHeap
    /\ IdleExtra

\* A producer goroutine calls the accumulation API.
GCall(p, c) ==
    /\ gpc[p] = "idle"
    /\ gcall' = [gcall EXCEPT ![p] = c]
    /\ gpc' = [gpc EXCEPT ![p] = "entered"]
    /\ UNCHANGED <<cvars, mvars, avars, hvars, xvars, mu, gtmp, result, hist>>

\* AddFields up to container.mu.Lock(): the empty-argument return, the
\* uninitialized return and the odd-argument return.
AfEnter(p) ==
    /\ gpc[p] = "entered" /\ gcall[p].op = "AddFields"
    /\ LET kv == gcall[p].kv
       IN  IF Len(kv) = 0
           THEN gpc' = [gpc EXCEPT ![p] = "done"] /\ UNCHANGED diag
           ELSE IF ~bound
           THEN /\ gpc' = [gpc EXCEPT ![p] = "done"]
                /\ diag' = Append(diag, Diag("widelogger: context not initialized", "AddFields"))
           ELSE IF Len(kv) % 2 # 0
           THEN /\ gpc' = [gpc EXCEPT ![p] = "done"]
                /\ diag' = Append(diag, Diag("widelogger: odd number of arguments", "AddFields"))
           ELSE gpc' = [gpc EXCEPT ![p] = "lock"] /\ UNCHANGED diag
    /\ UNCHANGED <<bound, fields, warnings, errors, mvars, avars, hvars, xvars, mu, gcall, gtmp, result, hist>>

\* AddWarning / AddError up to container.mu.Lock(): the uninitialized
\* return, and the entry built from the arguments.
AeEnter(p) ==
    /\ gpc[p] = "entered" /\ gcall[p].op \in {"AddWarning", "AddError"}
    /\ IF ~bound
       THEN /\ gpc' = [gpc EXCEPT ![p] = "done"]
            /\ diag' = Append(diag, Diag("widelogger: context not initialized", gcall[p].op))
            /\ UNCHANGED gtmp
       ELSE /\ gpc' = [gpc EXCEPT ![p] = "lock"]
            /\ gtmp' = [gtmp EXCEPT ![p].entry = NewEntry(gcall[p].message, gcall[p].kv)]
            /\ UNCHANGED diag
    /\ UNCHANGED <<bound, fields, warnings, errors, mvars, avars, hvars, xvars, mu, gcall, result, hist>>

\* container.mu.Lock() of a producer.
GLock(p) ==
    /\ gpc[p] = "lock"
    /\ MuAvailable(mu)
    /\ mu' = p
    /\ gpc' = [gpc EXCEPT ![p] = IF gcall[p].op = "AddFields" THEN "loop" ELSE "append_read"]
    /\ gtmp' = [gtmp EXCEPT ![p].i = 1]
    /\ UNCHANGED <<cvars, mvars, avars, hvars, xvars, gcall, result, hist>>

\* One iteration of the loop of AddFields; after the last one the function
\* returns and the deferred Unlock runs.
AfLoop(p) ==
    /\ gpc[p] = "loop"
    /\ LET kv == gcall[p].kv
           i == gtmp[p].i
       IN  IF i > Len(kv)
           THEN /\ gpc' = [gpc EXCEPT ![p] = "unlock"]
                /\ UNCHANGED <<fields, diag, gtmp, hist>>
           ELSE /\ gtmp' = [gtmp EXCEPT ![p].i = i + 2]
                /\ UNCHANGED gpc
                /\ IF IsString(kv[i])
                   THEN /\ fields' = SetField(fields, kv[i].s, kv[i + 1])
                        /\ Observe([Content EXCEPT !.fields = fields'])
                        /\ UNCHANGED diag
                   ELSE /\ diag' = Append(diag, Diag("widelogger: key must be string", ""))
                        /\ UNCHANGED <<fields, hist>>
    /\ UNCHANGED <<bound, warnings, errors, mvars, avars, hvars, xvars, mu, gcall, result>>

\* append(container.warnings, warning), first half: the slice is read.
AeAppendRead(p) ==
    /\ gpc[p] = "append_read"
    /\ gtmp' = [gtmp EXCEPT ![p].slice =
                   IF gcall[p].op = "AddWarning" THEN warnings ELSE errors]
    /\ gpc' = [gpc EXCEPT ![p] = "append_write"]
    /\ UNCHANGED <<cvars, mvars, avars, hvars, xvars, mu, gcall, result, hist>>

\* append(container.warnings, warning), second half: the grown slice is stored.
AeAppendWrite(p) ==
    /\ gpc[p] = "append_write"
    /\ IF gcall[p].op = "AddWarning"
       THEN /\ warnings' = Append(gtmp[p].slice, gtmp[p].entry)
            /\ Observe([Content EXCEPT !.warnings = warnings'])
            /\ UNCHANGED errors
       ELSE /\ errors' = Append(gtmp[p].slice, gtmp[p].entry)
            /\ Observe([Content EXCEPT !.errors = errors'])
            /\ UNCHANGED warnings
    /\ gpc' = [gpc EXCEPT ![p] = "unlock"]
    /\ UNCHANGED <<bound, fields, diag, mvars, avars, hvars, xvars, mu, gcall, gtmp, result>>

\* container.mu.Unlock() and the return, of a producer or of the reader.
GUnlock(p) ==
    /\ gpc[p] = "unlock"
    /\ mu' = 0
    /\ gpc' = [gpc EXCEPT ![p] = "done"]
    /\ UNCHANGED <<cvars, mvars, avars, hvars, xvars, gcall, gtmp, result, hist>>

\* The reader goroutine calls collectFields.
RCall ==
    /\ gpc[Reader] = "idle"
    /\ gpc' = [gpc EXCEPT ![Reader] = "entered"]
    /\ hist' = {Content}
    /\ UNCHANGED <<cvars, mvars, avars, hvars, xvars, mu, gcall, gtmp, result>>

\* collectFields up to container.mu.Lock(): nil is returned without a container.
REnter ==
    /\ gpc[Reader] = "entered"
    /\ gpc' = [gpc EXCEPT ![Reader] = IF bound THEN "lock" ELSE "done"]
    /\ result' = <<>>
    /\ UNCHANGED <<cvars, mvars, avars, hvars, xvars, mu, gcall, gtmp, hist>>

\* Faulty variant: collectFields reads the container without taking the lock.
RLockNoWait ==
    /\ gpc[Reader] = "lock"
    /\ gpc' = [gpc EXCEPT ![Reader] = "read_fields"]
    /\ UNCHANGED <<cvars, mvars, avars, hvars, xvars, mu, gcall, gtmp, result, hist>>

\* container.mu.Lock() of the reader.
RLock ==
    /\ gpc[Reader] = "lock"
    /\ MuAvailable(mu)
    /\ mu' = Reader
    /\ gpc' = [gpc EXCEPT ![Reader] = "read_fields"]
    /\ UNCHANGED <<cvars, mvars, avars, hvars, xvars, gcall, gtmp, result, hist>>

\* for k, v := range container.fields { attrs = append(attrs, k, v) }
RReadFields ==
    /\ gpc[Reader] = "read_fields"
    /\ \E order \in KeyOrders(DOMAIN fields) : result' = FieldPairs(fields, order)
    /\ gpc' = [gpc EXCEPT ![Reader] = "read_warnings"]
    /\ UNCHANGED <<cvars, mvars, avars, hvars, xvars, mu, gcall, gtmp, hist>>

\* the warnings and warning_count pairs
RReadWarnings ==
    /\ gpc[Reader] = "read_warnings"
    /\ result' = result \o WarningAttrs(warnings)
    /\ gpc' = [gpc EXCEPT ![Reader] = "read_errors"]
    /\ UNCHANGED <<cvars, mvars, avars, hvars, xvars, mu, gcall, gtmp, hist>>

\* the errors and error_count pairs
RReadErrors ==
    /\ gpc[Reader] = "read_errors"
    /\ result' = result \o ErrorAttrs(errors)
    /\ gpc' = [gpc EXCEPT ![Reader] = "unlock"]
    /\ UNCHANGED <<cvars, mvars, avars, hvars, xvars, mu, gcall, gtmp, hist>>

NextConc ==
    \/ \E p \in Procs : \E c \in ProducerCalls(p) : GCall(p, c)
    \/ \E p \in Procs : AfEnter(p)
    \/ \E p \in Procs : AeEnter(p)
    \/ \E p \in Procs : GLock(p)
    \/ \E p \in Procs : AfLoop(p)
    \/ \E p \in Procs : AeAppendRead(p)
    \/ \E p \in Procs : AeAppendWrite(p)
    \/ \E p \in Procs \cup {Reader} : GUnlock(p)
    \/ RCall
    \/ REnter
    \/ RLock
    \/ RReadFields
    \/ RReadWarnings
    \/ RReadErrors

SpecConc == InitConc /\ [][NextConc]_vars

(***************************************************************************)
(* SpecApi: one goroutine calling the package API, call after call, with   *)
(* a context of its choice.                                                *)
(***************************************************************************)
\* The contexts a caller may pass: nil, one without a container
\* (context.Background()), and the one NewContext returned.
Ctxs == {"nil", "background", "bound"}

\* Faulty variant: every context yields the container.
GetContainerAlwaysFound(ctx) == TRUE

\* getContainer(ctx) # nil
GetContainer(ctx) == ctx = "bound"

\* Argument lists for AddFields: valid ones that repeat a key within the
\* call, ones with a key that is not a string before, between and after
\* valid pairs, and ones of odd length.  The value z is only ever paired
\* with a key that is not a string.
ApiFieldArgs ==
    {<<>>,
     <<StrV("a"), StrV("x")>>,
     <<StrV("a"), StrV("y")>>,
     <<StrV("a"), StrV("x"), StrV("a"), StrV("y")>>,
     <<StrV("a"), StrV("y"), StrV("b"), StrV("x")>>,
     <<IntV(1), StrV("z"), StrV("a"), StrV("x")>>,
     <<StrV("b"), StrV("y"), IntV(1), StrV("z")>>,
     <<StrV("a"), StrV("x"), IntV(1), StrV("z"), StrV("b"), StrV("y")>>,
     <<StrV("a")>>,
     <<IntV(1)>>,
     <<StrV("a"), StrV("y"), StrV("b")>>}

\* Argument lists for AddWarning / AddError after the message.
ApiEntryArgs ==
    {<<>>,
     <<StrV("a"), StrV("x")>>,
     <<StrV("a")>>,
     <<StrV("a"), StrV("x"), StrV("b")>>}

\* Loggers a caller may pass to SetDefaultLogger; "" is nil.
Loggers == {"", "s1", "s2"}

LevelDebug == "DEBUG"

Levels == {LevelDebug, LevelInfo, LevelWarn, LevelError}

\* Faulty variant: the assignment is made before the nil check.
SetDefaultLoggerAssignFirst(cur, l) == l

\* SetDefaultLogger: the value of defaultLogger it leaves; nil panics
\* before the assignment.
SetDefaultLoggerResult(cur, l) == IF l = "" THEN cur ELSE l

SetDefaultLoggerPanics(l) == l = ""

\* The state a call starts from, the arguments, and empty results.
ApiCall(op, ctx, message, kv, l) ==
    [op |-> op, ctx |-> ctx, message |-> message, kv |-> kv, logger |-> l,
     pre |-> Content, preDiag |-> Len(diag), preDefault |-> defaultLogger,
     preSink |-> Len(sinkLog),
     retBool |-> FALSE, retAttrs |-> <<>>, panicked |-> FALSE]

ApiStep == apiCalls < MaxApiCalls /\ apiCalls' = apiCalls + 1

InitApi ==
    /\ IdleMiddleware
    /\ IdleGoroutines
    /\ IdleApi
    /\ IdleHeap
    /\ IdleExtra
    /\ bound = TRUE
    /\ fields = EmptyFields
    /\ warnings = <<>>
    /\ errors = <<>>
    /\ diag = <<>>

\* AddFields(ctx, kv...)
ApiAddFields(ctx, kv) ==
    /\ ApiStep
    /\ LET b == bound /\ GetContainer(ctx)
       IN  /\ fields' = AddFieldsResult(b, fields, kv)
           /\ diag' = diag \o AddFieldsDiags(b, kv)
    /\ apiLast' = ApiCall("AddFields", ctx, "", kv, "")
    /\ UNCHANGED <<bound, warnings, errors, defaultLogger, sinkLog, wcalls, mvars, gvars, hvars, xvars>>

\* AddWarning(ctx, message, kv...)
ApiAddWarning(ctx, kv) ==
    /\ ApiStep
    /\ LET b == bound /\ GetContainer(ctx)
       IN  /\ warnings' = AddEntryResult(b, warnings, "slow query", kv)
           /\ diag' = diag \o AddEntryDiags(b, "AddWarning")
    /\ apiLast' = ApiCall("AddWarning", ctx, "slow query", kv, "")
    /\ UNCHANGED <<bound, fields, errors, defaultLogger, sinkLog, wcalls, mvars, gvars, hvars, xvars>>

\* AddError(ctx, message, kv...)
ApiAddError(ctx, kv) ==
    /\ ApiStep
    /\ LET b == bound /\ GetContainer(ctx)
       IN  /\ errors' = AddEntryResult(b, errors, "db timeout", kv)
           /\ diag' = diag \o AddEntryDiags(b, "AddError")
    /\ apiLast' = ApiCall("AddError", ctx, "db timeout", kv, "")
    /\ UNCHANGED <<bound, fields, warnings, defaultLogger, sinkLog, wcalls, mvars, gvars, hvars, xvars>>

\* HasWarnings(ctx)
ApiHasWarnings(ctx) ==
    /\ ApiStep
    /\ apiLast' = [ApiCall("HasWarnings", ctx, "", <<>>, "") EXCEPT
                      !.retBool = HasEntries(bound /\ GetContainer(ctx), warnings)]
    /\ UNCHANGED <<cvars, defaultLogger, sinkLog, wcalls, mvars, gvars, hvars, xvars>>

\* HasErrors(ctx)
ApiHasErrors(ctx) ==
    /\ ApiStep
    /\ apiLast' = [ApiCall("HasErrors", ctx, "", <<>>, "") EXCEPT
                      !.retBool = HasEntries(bound /\ GetContainer(ctx), errors)]
    /\ UNCHANGED <<cvars, defaultLogger, sinkLog, wcalls, mvars, gvars, hvars, xvars>>

\* collectFields(ctx): nil without a container, the attribute list otherwise.
CollectFields(ctx, order) ==
    IF bound /\ GetContainer(ctx)
    THEN CollectAttrs(fields, warnings, errors, order)
    ELSE <<>>

ApiCollect(ctx) ==
    /\ ApiStep
    /\ \E order \in KeyOrders(DOMAIN fields) :
          apiLast' = [ApiCall("collectFields", ctx, "", <<>>, "") EXCEPT
                         !.retAttrs = CollectFields(ctx, order)]
    /\ UNCHANGED <<cvars, defaultLogger, sinkLog, wcalls, mvars, gvars, hvars, xvars>>

\* SetDefaultLogger(l); the caller recovers from the panic and goes on.
ApiSetDefaultLogger(l) ==
    /\ ApiStep
    /\ defaultLogger' = SetDefaultLoggerResult(defaultLogger, l)
    /\ apiLast' = [ApiCall("SetDefaultLogger", "", "", <<>>, l) EXCEPT
                      !.panicked = SetDefaultLoggerPanics(l)]
    /\ UNCHANGED <<cvars, sinkLog, wcalls, mvars, gvars, hvars, xvars>>

\* Extra pairs a caller may pass to Info / Error / Warn / Debug: none, a key
\* the container may hold as well, and two pairs in a given order.
LogExtraArgs ==
    {<<>>,
     <<StrV("a"), StrV("w")>>,
     <<StrV("b"), StrV("w")>>, <<StrV("b"), StrV("w"), StrV("a"), StrV("w")>>}

\* The package-level Info / Error / Warn / Debug: New(nil) takes the default
\* logger of the moment and Log writes one record through it, the snapshot
\* followed by the call's own pairs.
ApiLog(level, ctx, extra) ==
    /\ ApiStep
    /\ \E order \in KeyOrders(DOMAIN fields) :
          LET attrs == CollectFields(ctx, order)
          IN  /\ sinkLog' = Append(sinkLog,
                      [sink |-> defaultLogger, rec |-> LogRecord(level, "note", attrs, extra)])
              /\ apiLast' = [ApiCall(level, ctx, "note", extra, "") EXCEPT
                                !.retAttrs = attrs]
    /\ UNCHANGED <<cvars, defaultLogger, wcalls, mvars, gvars, hvars, xvars>>

NextApi ==
    \/ \E ctx \in Ctxs, kv \in ApiFieldArgs : ApiAddFields(ctx, kv)
    \/ \E ctx \in Ctxs, kv \in ApiEntryArgs : ApiAddWarning(ctx, kv)
    \/ \E ctx \in Ctxs, kv \in ApiEntryArgs : ApiAddError(ctx, kv)
    \/ \E ctx \in Ctxs : ApiHasWarnings(ctx)
    \/ \E ctx \in Ctxs : ApiHasErrors(ctx)
    \/ \E ctx \in Ctxs : ApiCollect(ctx)
    \/ \E l \in Loggers : ApiSetDefaultLogger(l)
    \/ \E level \in Levels, ctx \in Ctxs, extra \in LogExtraArgs : ApiLog(level, ctx, extra)

SpecApi == InitApi /\ [][NextApi]_vars

(***************************************************************************)
(* SpecWriter: a handler calling WriteHeader and Write on the wrapped      *)
(* writer, in any order.                                                   *)
(***************************************************************************)
InitWriter ==
    /\ IdleMiddleware
    /\ IdleGoroutines
    /\ IdleApi
    /\ IdleHeap
    /\ IdleExtra
    /\ bound = FALSE
    /\ fields = EmptyFields
    /\ warnings = <<>>
    /\ errors = <<>>
    /\ diag = <<>>

WriterStep(op, code) ==
    /\ Len(wcalls) < MaxWriterCalls
    /\ wcalls' = Append(wcalls, [op |-> op, code |-> code])

\* rw.WriteHeader(code): the wrapper's bookkeeping, then the underlying
\* writer's WriteHeader.
WWriteHeader(code) ==
    /\ WriterStep("WriteHeader", code)
    /\ rw' = WrappedWriteHeader(rw, code)
    /\ resp' = RespWriteHeader(resp, code)
    /\ UNCHANGED <<opts, cfg, pc, req, cvars, ctxRequestID, seenRequestID, handlerCalls, handlerFields, ops, log,
                   generatorCalls, panicVal, callbackCalls, propagated, outcome, gvars, hvars, xvars,
                   apiCalls, apiLast, defaultLogger, sinkLog>>

\* rw.Write(b): WriteHeader(200) through the wrapper when nothing was
\* written, then the underlying writer's Write.
WWrite ==
    /\ WriterStep("Write", 0)
    /\ rw' = WrappedWrite(rw)
    /\ resp' = RespWrite(IF ~rw.written THEN RespWriteHeader(resp, StatusOK) ELSE resp)
    /\ UNCHANGED <<opts, cfg, pc, req, cvars, ctxRequestID, seenRequestID, handlerCalls, handlerFields, ops, log,
                   generatorCalls, panicVal, callbackCalls, propagated, outcome, gvars, hvars, xvars,
                   apiCalls, apiLast, defaultLogger, sinkLog>>

NextWriter ==
    \/ \E code \in StatusCodes : WWriteHeader(code)
    \/ WWrite

SpecWriter == InitWriter /\ [][NextWriter]_vars

(***************************************************************************)
(* SpecCtx: a caller that derives contexts with NewContext, from           *)
(* context.Background() or from a context that has a container already,    *)
(* and accumulates through any of them.                                    *)
(***************************************************************************)
\* &fieldContainer{fields: make(...), warnings: make(...), errors: make(...)}
NewContainer ==
    [fields |-> EmptyFields, warnings |-> <<>>, errors |-> <<>>,
     nilFields |-> FALSE, nilWarnings |-> FALSE, nilErrors |-> FALSE]

\* Faulty variant: every NewContext hands out the first container made.
AllocContainerShared(h) ==
    IF h = <<>> THEN [heap |-> <<NewContainer>>, at |-> 1] ELSE [heap |-> h, at |-> 1]

\* The composite literal allocates a new object: the heap grows by one
\* container and the context is bound to it.
AllocContainer(h) == [heap |-> Append(h, NewContainer), at |-> Len(h) + 1]

\* Argument lists the caller passes to AddFields.
CtxFieldArgs == {<<StrV("a"), StrV("x")>>, <<StrV("b"), StrV("y")>>}

CtxCall(op, c, kv) ==
    [op |-> op, ctx |-> c, kv |-> kv, pre |-> heap,
     n |-> IF op = "NewContext" THEN ctxLast.n ELSE ctxLast.n + 1]

InitCtx ==
    /\ IdleMiddleware
    /\ IdleGoroutines
    /\ IdleApi
    /\ IdleHeap
    /\ IdleExtra
    /\ bound = FALSE
    /\ fields = EmptyFields
    /\ warnings = <<>>
    /\ errors = <<>>
    /\ diag = <<>>

\* NewContext(parent): parent 0 is context.Background(), any other parent
\* is a context made before.  The new context shadows the parent's value.
CtxNewContext(parent) ==
    /\ Len(ctxs) < MaxContexts
    /\ LET a == AllocContainer(heap)
       IN  /\ heap' = a.heap
           /\ ctxs' = Append(ctxs, [parent |-> parent, container |-> a.at])
    /\ ctxLast' = CtxCall("NewContext", Len(ctxs) + 1, <<>>)
    /\ UNCHANGED <<cvars, mvars, gvars, avars, xvars, rq, rlog>>

\* AddFields(c, kv...) on a context made by NewContext.
CtxAddFields(c, kv) ==
    /\ ctxLast.n < MaxCtxCalls
    /\ heap' = [heap EXCEPT ![ctxs[c].container].fields = AddFieldsResult(TRUE, @, kv)]
    /\ ctxLast' = CtxCall("AddFields", c, kv)
    /\ UNCHANGED <<cvars, mvars, gvars, avars, xvars, ctxs, rq, rlog>>

\* AddWarning(c, "slow query")
CtxAddWarning(c) ==
    /\ ctxLast.n < MaxCtxCalls
    /\ heap' = [heap EXCEPT ![ctxs[c].container].warnings =
                    AddEntryResult(TRUE, @, "slow query", <<>>)]
    /\ ctxLast' = CtxCall("AddWarning", c, <<>>)
    /\ UNCHANGED <<cvars, mvars, gvars, avars, xvars, ctxs, rq, rlog>>

\* AddError(c, "db timeout")
CtxAddError(c) ==
    /\ ctxLast.n < MaxCtxCalls
    /\ heap' = [heap EXCEPT ![ctxs[c].container].errors =
                    AddEntryResult(TRUE, @, "db timeout", <<>>)]
    /\ ctxLast' = CtxCall("AddError", c, <<>>)
    /\ UNCHANGED <<cvars, mvars, gvars, avars, xvars, ctxs, rq, rlog>>

NextCtx ==
    \/ \E parent \in 0..Len(ctxs) : CtxNewContext(parent)
    \/ \E c \in 1..Len(ctxs), kv \in CtxFieldArgs : CtxAddFields(c, kv)
    \/ \E c \in 1..Len(ctxs) : CtxAddWarning(c)
    \/ \E c \in 1..Len(ctxs) : CtxAddError(c)

SpecCtx == InitCtx /\ [][NextCtx]_vars

(***************************************************************************)
(* SpecReqs: requests served at the same time by one middleware built      *)
(* without options.  Each call of the handler function has its own locals  *)
(* (ctx, wrapped, start); the steps of different requests interleave.      *)
(***************************************************************************)
\* What tells the requests apart: the path asked for, and the values the
\* handler of each adds.
RequestOf(i) ==
    [path |-> <<"/r1", "/r2", "/r3", "/r4">>[i], query |-> "", headers |-> Headers("", "")]

TagOf(i) == <<"u1", "u2", "u3", "u4">>[i]

\* Faulty variant: ctx is one variable shared by all calls of the handler
\* function, so every request reaches the container made first.
RequestContainerFirst(i) == 1

\* The container of the local variable ctx of request i.
RequestContainer(i) == rq[i].ctx

InitReqs ==
    /\ IdleMiddleware
    /\ IdleGoroutines
    /\ IdleApi
    /\ IdleHeap
    /\ IdleExtra
    /\ bound = FALSE
    /\ fields = EmptyFields
    /\ warnings = <<>>
    /\ errors = <<>>
    /\ diag = <<>>

\* The handler function up to next.ServeHTTP: ctx := NewContext(r.Context())
\* and the seeded fields.
RqBegin(i) ==
    /\ rq[i].pc = "idle"
    /\ LET a == AllocContainer(heap)
       IN  /\ rq' = [rq EXCEPT ![i].pc = "handler", ![i].ctx = a.at]
           /\ heap' = [a.heap EXCEPT ![a.at].fields = SeedFields(cfg, RequestOf(i), "")]
    /\ UNCHANGED <<cvars, mvars, gvars, avars, xvars, ctxs, ctxLast, rlog>>

RqStep(i, op) ==
    /\ rq[i].pc = "handler"
    /\ rq[i].calls["AddFields"] + rq[i].calls["AddWarning"] + rq[i].calls["AddError"]
          < MaxRequestOps
    /\ rq' = [rq EXCEPT ![i].calls[op] = @ + 1]

\* The downstream handler of request i calls AddFields(r.Context(), ...).
RqAddFields(i) ==
    /\ RqStep(i, "AddFields")
    /\ heap' = [heap EXCEPT ![RequestContainer(i)].fields =
                    AddFieldsResult(TRUE, @, <<StrV("user_id"), StrV(TagOf(i))>>)]
    /\ UNCHANGED <<cvars, mvars, gvars, avars, xvars, ctxs, ctxLast, rlog>>

\* The downstream handler of request i calls AddWarning(r.Context(), ...).
RqAddWarning(i) ==
    /\ RqStep(i, "AddWarning")
    /\ heap' = [heap EXCEPT ![RequestContainer(i)].warnings =
                    AddEntryResult(TRUE, @, MessageOf(i), <<>>)]
    /\ UNCHANGED <<cvars, mvars, gvars, avars, xvars, ctxs, ctxLast, rlog>>

\* The downstream handler of request i calls AddError(r.Context(), ...).
RqAddError(i) ==
    /\ RqStep(i, "AddError")
    /\ heap' = [heap EXCEPT ![RequestContainer(i)].errors =
                    AddEntryResult(TRUE, @, MessageOf(i), <<>>)]
    /\ UNCHANGED <<cvars, mvars, gvars, avars, xvars, ctxs, ctxLast, rlog>>

\* The handler function after next.ServeHTTP returned: the handler wrote
\* nothing, so the captured status is the initial StatusOK; the sampling
\* rate is the default 1.0, so no draw is made and the record is written.
RqComplete(i) ==
    /\ rq[i].pc = "handler"
    /\ \E dur \in Durations :
          LET k == RequestContainer(i)
              f == AddFieldsResult(TRUE, heap[k].fields,
                       <<StrV("status_code"), IntV(StatusOK), StrV("duration_ms"), IntV(dur)>>)
              c == Classify(HasEntries(TRUE, heap[k].errors),
                            HasEntries(TRUE, heap[k].warnings), StatusOK)
          IN  /\ heap' = [heap EXCEPT ![k].fields = f]
              /\ ShouldLog(c.level, cfg.samplingRate, 0)
              /\ \E order \in KeyOrders(DOMAIN f) :
                    rlog' = [rlog EXCEPT ![i] =
                                LogRecord(c.level, c.msg,
                                    CollectAttrs(f, heap[k].warnings, heap[k].errors, order),
                                    <<>>)]
    /\ rq' = [rq EXCEPT ![i].pc = "done"]
    /\ UNCHANGED <<cvars, mvars, gvars, avars, xvars, ctxs, ctxLast>>

NextReqs ==
    \/ \E i \in Reqs : RqBegin(i)
    \/ \E i \in Reqs : RqAddFields(i)
    \/ \E i \in Reqs : RqAddWarning(i)
    \/ \E i \in Reqs : RqAddError(i)
    \/ \E i \in Reqs : RqComplete(i)

SpecReqs == InitReqs /\ [][NextReqs]_vars

(***************************************************************************)
(* Properties.                                                             *)
(***************************************************************************)
\* The request was excluded by the options the middleware was built with.
ExcludedByOptions == Len(opts.excludePaths) > 0 /\ req.path \in opts.excludePaths[1]

\* The downstream handler returned normally and the handler function of the
\* middleware ran to its end (only MwComplete sets outcome.level).
CompletedNormally == pc = "done" /\ outcome.level # ""

\* C1: a request that is not excluded makes the middleware write at most one
\* record, on the normal path and the panic path together, and exactly one
\* when the handler returned normally and the sampling gate let it pass.
C1_AtMostOneRecord ==
    /\ Len(log) <= 1
    /\ (CompletedNormally /\ outcome.shouldLog) =>
          /\ Len(log) = 1
          /\ log[1].level = outcome.level
          /\ log[1].msg = outcome.msg

C1_Witness ==
    /\ CompletedNormally /\ outcome.shouldLog
    /\ ~ExcludedByOptions
    /\ ops = MaxHandlerOps
    /\ Len(log) = 1

\* C2: once every producer's call has returned, the warnings sequence holds
\* exactly one entry for each AddWarning call and the errors sequence exactly
\* one entry for each AddError call, whatever the interleaving.
C2_NoLostAppend ==
    (bound /\ \A p \in Procs : gpc[p] = "done") =>
        LET W == {p \in Procs : gcall[p].op = "AddWarning"}
            E == {p \in Procs : gcall[p].op = "AddError"}
        IN  /\ Len(warnings) = Cardinality(W)
            /\ Len(errors) = Cardinality(E)
            /\ \A p \in W :
                  Cardinality({i \in 1..Len(warnings) :
                                  warnings[i].message = MessageOf(p)}) = 1
            /\ \A p \in E :
                  Cardinality({i \in 1..Len(errors) :
                                  errors[i].message = MessageOf(p)}) = 1

C2_Witness ==
    /\ bound
    /\ \A p \in Procs : gpc[p] = "done" /\ gcall[p].op = "AddWarning"
    /\ Len(warnings) = NumProducers

\* C3: what collectFields returns is the snapshot of one content the
\* container had between the call and the return: the field pairs, the
\* warnings with their count and the errors with their count all come from
\* that one content.
C3_AtomicSnapshot ==
    (bound /\ gpc[Reader] = "done") =>
        \E c \in hist : \E order \in KeyOrders(DOMAIN c.fields) :
            result = CollectAttrs(c.fields, c.warnings, c.errors, order)

C3_Witness ==
    /\ bound /\ gpc[Reader] = "done"
    /\ Cardinality(hist) >= 2
    /\ HasAttr(result, "warnings")
    /\ \E p \in Procs : gpc[p] # "done"

\* C4: the classification is a total function with a fixed precedence of
\* errors, warnings, status >= 500, status >= 400, otherwise Info; it is
\* stated here as five cases that exclude each other, for the requests the
\* middleware completed and for a grid of inputs.
C4_ClassificationTotal ==
    LET Table(e, w, st) ==
            CASE e -> [level |-> LevelError, msg |-> "http_request_completed_with_errors"]
              [] ~e /\ w -> [level |-> LevelWarn, msg |-> "http_request_completed_with_warnings"]
              [] ~e /\ ~w /\ st >= 500 -> [level |-> LevelError, msg |-> "http_request_completed"]
              [] ~e /\ ~w /\ st < 500 /\ st >= 400 ->
                    [level |-> LevelWarn, msg |-> "http_request_completed"]
              [] ~e /\ ~w /\ st < 400 -> [level |-> LevelInfo, msg |-> "http_request_completed"]
    IN  /\ \A e \in BOOLEAN, w \in BOOLEAN,
              st \in {100, 200, 301, 399, 400, 404, 499, 500, 503, 599} :
              Classify(e, w, st) = Table(e, w, st)
        /\ CompletedNormally =>
              /\ outcome.level = Table(Len(errors) > 0, Len(warnings) > 0, rw.statusCode).level
              /\ outcome.msg = Table(Len(errors) > 0, Len(warnings) > 0, rw.statusCode).msg

C4_Witness ==
    /\ CompletedNormally
    /\ Len(errors) > 0 /\ Len(warnings) > 0
    /\ outcome.level = LevelError
    /\ outcome.msg = "http_request_completed_with_errors"

\* C5: a request that completed normally with a recorded warning, a recorded
\* error or a captured status >= 400 always has its record written, at Warn
\* or Error severity, for every sampling rate and every draw.
C5_ElevatedNeverSuppressed ==
    (CompletedNormally
     /\ (Len(warnings) > 0 \/ Len(errors) > 0 \/ rw.statusCode >= 400)) =>
        /\ Len(log) = 1
        /\ log[1].level \in {LevelWarn, LevelError}
        /\ outcome.draw = -1

C5_Witness ==
    /\ CompletedNormally
    /\ cfg.samplingRate = 0
    /\ Len(warnings) = 0 /\ Len(errors) = 0 /\ rw.statusCode = 400
    /\ Len(log) = 1

\* C6: with sampling rate 0.0 every Info-classified request is suppressed,
\* whatever the draw, a draw of exactly 0 included.
C6_RateZeroSuppressesInfo ==
    (CompletedNormally /\ cfg.samplingRate = 0 /\ outcome.level = LevelInfo) =>
        Len(log) = 0

\* C7: with sampling rate 1.0, and with no sampling option, no record is
\* suppressed: every request that completed normally has exactly one record,
\* and no draw decides it.
C7_RateOneNeverSuppresses ==
    /\ opts.sampling = <<>> => cfg.samplingRate = RateScale
    /\ (CompletedNormally /\ (opts.sampling = <<>> \/ opts.sampling = <<RateScale>>)) =>
          /\ outcome.shouldLog
          /\ Len(log) = 1
          /\ log[1].level = outcome.level

C7_Witness ==
    /\ CompletedNormally
    /\ opts.sampling = <<>>
    /\ outcome.level = LevelInfo
    /\ Len(log) = 1

\* C8: on an excluded path the middleware writes no record, binds no
\* container (the handler's accumulation calls find the context
\* uninitialized), sets no request-ID header and calls the downstream handler
\* exactly once, with the original writer and the original request.
C8_ExcludedPassThrough ==
    (ExcludedByOptions /\ pc # "idle") =>
        /\ Len(log) = 0
        /\ ~bound
        /\ fields = EmptyFields /\ warnings = <<>> /\ errors = <<>>
        /\ \A i \in 1..Len(diag) : diag[i].msg = "widelogger: context not initialized"
        /\ \A h \in HeaderNames : resp.header[h] = "" /\ resp.sentHeader[h] = ""
        /\ ctxRequestID = "" /\ generatorCalls = 0
        /\ handlerCalls = <<[writer |-> "original", request |-> "original"]>>
        /\ ~rw.written

C8_Witness ==
    /\ ExcludedByOptions /\ pc = "done"
    /\ opts.requestID # <<>>
    /\ Len(diag) > 0
    /\ resp.wroteHeader
    /\ handlerCalls = <<[writer |-> "original", request |-> "original"]>>

\* C9: when the handler panics with v and no callback is configured, the
\* middleware writes exactly one record, at Error severity with panic = v,
\* before the panic reaches its caller with the same v; no completion record
\* is written.
C9_PanicReraised ==
    (panicVal # "" /\ ~opts.onPanic) =>
        /\ callbackCalls = <<>>
        /\ propagated # "" => pc = "done" /\ Len(log) = 1
        /\ pc = "done" =>
              /\ propagated = panicVal
              /\ Len(log) = 1
              /\ log[1].level = LevelError
              /\ log[1].msg = "http_request_panic"
              /\ HasAttr(log[1].attrs, "panic")
              /\ AttrValue(log[1].attrs, "panic") = StrV(panicVal)
              /\ outcome.level = ""

C9_Witness ==
    /\ pc = "done" /\ ~opts.onPanic
    /\ panicVal = "oops" /\ propagated = "oops"
    /\ Len(log) = 1

\* C10: when the handler panics with v and a callback is configured, field
\* panic = v is stored, then one Error record is written, then the callback
\* is called once with v; the panic does not reach the caller and no other
\* record is written.
C10_PanicCallbackOrder ==
    (panicVal # "" /\ opts.onPanic) =>
        /\ propagated = ""
        /\ Len(log) >= 1 =>
              /\ "panic" \in DOMAIN fields /\ fields["panic"] = StrV(panicVal)
              /\ HasAttr(log[1].attrs, "panic")
              /\ AttrValue(log[1].attrs, "panic") = StrV(panicVal)
              /\ log[1].level = LevelError
        /\ pc = "recovering" => Len(log) = 0 /\ callbackCalls = <<>>
        /\ pc = "panic_logged" => Len(log) = 1 /\ callbackCalls = <<>>
        /\ callbackCalls # <<>> => pc = "done"
        /\ pc = "done" =>
              /\ callbackCalls = <<panicVal>>
              /\ Len(log) = 1
              /\ outcome.level = ""

C10_Witness ==
    /\ pc = "done" /\ opts.onPanic
    /\ panicVal = "boom" /\ callbackCalls = <<"boom">>
    /\ Len(log) = 1 /\ propagated = ""

\* C11: the record of a recovered panic never goes through the sampling
\* gate: for every configured rate, 0 included, once the deferred function
\* has written it the log holds the panic record, and no draw was made.
C11_PanicNeverSampled ==
    (panicVal # "" /\ pc \in {"panic_logged", "done"}) =>
        /\ log # <<>>
        /\ log[Len(log)].msg = "http_request_panic"
        /\ log[Len(log)].level = LevelError
        /\ outcome.draw = -1 /\ ~outcome.shouldLog

C11_Witness ==
    /\ panicVal # "" /\ pc = "done"
    /\ opts.sampling = <<0>> /\ cfg.samplingRate = 0
    /\ log # <<>> /\ log[1].msg = "http_request_panic"

\* Reading an argument list as the caller wrote it: the positions of the
\* keys, the string keys, and the value of the last pair with key k.
KeyPositions(kv) == {i \in 1..Len(kv) : i % 2 = 1}

StringKeys(kv) == {kv[i].s : i \in {j \in KeyPositions(kv) : IsString(kv[j])}}

LastWritten(kv, k) ==
    LET I == {i \in KeyPositions(kv) : IsString(kv[i]) /\ kv[i].s = k}
    IN  kv[(CHOOSE i \in I : \A j \in I : j <= i) + 1]

EvenArgs(kv) == Len(kv) > 0 /\ Len(kv) % 2 = 0

OddArgs(kv) == Len(kv) % 2 = 1

Occurrences(attrs, k) ==
    Cardinality({i \in KeyPositions(attrs) : attrs[i] = StrV(k)})

\* The last call was made on the context NewContext returned.
LastOnBound(op) == apiLast.op = op /\ apiLast.ctx = "bound"

\* The last call was made on nil or on a context without a container.
LastOnUnbound == apiLast.op # "" /\ apiLast.ctx \in {"nil", "background"}

\* C12: an AddFields call whose list is even with string keys only leaves
\* every key it names with the value of the last pair that names it, and
\* every other key as the calls before left it; the snapshot holds every
\* key of the container exactly once, with that value.
C12_LastWriteWins ==
    /\ (LastOnBound("AddFields") /\ EvenArgs(apiLast.kv)
          /\ \A i \in KeyPositions(apiLast.kv) : IsString(apiLast.kv[i])) =>
          /\ DOMAIN fields = DOMAIN apiLast.pre.fields \cup StringKeys(apiLast.kv)
          /\ \A k \in DOMAIN fields :
                fields[k] = IF k \in StringKeys(apiLast.kv)
                            THEN LastWritten(apiLast.kv, k)
                            ELSE apiLast.pre.fields[k]
    /\ LastOnBound("collectFields") =>
          /\ \A k \in DOMAIN fields :
                /\ Occurrences(apiLast.retAttrs, k) = 1
                /\ AttrValue(apiLast.retAttrs, k) = fields[k]
          /\ Len(apiLast.retAttrs) =
                2 * Cardinality(DOMAIN fields)
                + (IF Len(warnings) > 0 THEN 4 ELSE 0)
                + (IF Len(errors) > 0 THEN 4 ELSE 0)

C12_Witness ==
    /\ LastOnBound("AddFields")
    /\ apiLast.kv = <<StrV("a"), StrV("x"), StrV("a"), StrV("y")>>
    /\ "a" \in DOMAIN apiLast.pre.fields /\ apiLast.pre.fields["a"] = StrV("x")
    /\ "b" \in DOMAIN fields
    /\ fields["a"] = StrV("y")

\* C13: AddFields with an odd number of arguments on an initialized context
\* leaves fields, warnings and errors as they were and writes the
\* diagnostic 'odd number of arguments'.
C13_OddListRejected ==
    (LastOnBound("AddFields") /\ OddArgs(apiLast.kv)) =>
        /\ Content = apiLast.pre
        /\ Len(diag) = apiLast.preDiag + 1
        /\ diag[Len(diag)] = Diag("widelogger: odd number of arguments", "AddFields")

C13_Witness ==
    /\ LastOnBound("AddFields")
    /\ apiLast.kv = <<StrV("a"), StrV("y"), StrV("b")>>
    /\ fields = SetField(EmptyFields, "a", StrV("x"))
    /\ Len(diag) = 1

\* C14: in an even list, a pair whose key is not a string is skipped, its
\* value stored under no key, with one diagnostic for each such pair, and
\* every pair with a string key, before or after it, is applied.
C14_InvalidKeySkipped ==
    (LastOnBound("AddFields") /\ EvenArgs(apiLast.kv)
       /\ \E i \in KeyPositions(apiLast.kv) : ~IsString(apiLast.kv[i])) =>
        LET kv == apiLast.kv
            bad == {i \in KeyPositions(kv) : ~IsString(kv[i])}
        IN  /\ \A i \in bad : \A k \in DOMAIN fields : fields[k] # kv[i + 1]
            /\ \A i \in KeyPositions(kv) \ bad :
                  kv[i].s \in DOMAIN fields /\ fields[kv[i].s] = LastWritten(kv, kv[i].s)
            /\ \A k \in DOMAIN fields \ StringKeys(kv) :
                  k \in DOMAIN apiLast.pre.fields /\ fields[k] = apiLast.pre.fields[k]
            /\ Len(diag) = apiLast.preDiag + Cardinality(bad)
            /\ \A j \in (apiLast.preDiag + 1)..Len(diag) :
                  diag[j].msg = "widelogger: key must be string"
            /\ warnings = apiLast.pre.warnings /\ errors = apiLast.pre.errors

C14_Witness ==
    /\ LastOnBound("AddFields")
    /\ apiLast.kv = <<StrV("a"), StrV("x"), IntV(1), StrV("z"), StrV("b"), StrV("y")>>
    /\ apiLast.pre.fields = EmptyFields
    /\ DOMAIN fields = {"a", "b"}

\* C15: a call on nil or on a context without a container does not panic
\* and leaves the container that exists as it was; AddFields (with
\* arguments), AddWarning and AddError write one diagnostic, HasWarnings
\* and HasErrors return false, collectFields returns nothing.
C15_UninitializedIsNoOp ==
    LastOnUnbound =>
        /\ Content = apiLast.pre
        /\ ~apiLast.panicked
        /\ ~apiLast.retBool
        /\ apiLast.retAttrs = <<>>
        /\ (apiLast.op \in {"AddWarning", "AddError"}
              \/ (apiLast.op = "AddFields" /\ Len(apiLast.kv) > 0)) =>
              /\ Len(diag) = apiLast.preDiag + 1
              /\ diag[Len(diag)] = Diag("widelogger: context not initialized", apiLast.op)

C15_Witness ==
    /\ LastOnUnbound
    /\ apiLast.op = "HasWarnings" /\ apiLast.ctx = "nil"
    /\ Len(warnings) = 1

\* C16: AddWarning and AddError reject an odd pair list as a whole, as
\* AddFields does: no entry is appended and the diagnostic 'odd number of
\* arguments' is written.
C16_EntryOddListRejected ==
    ((LastOnBound("AddWarning") \/ LastOnBound("AddError")) /\ OddArgs(apiLast.kv)) =>
        /\ Content = apiLast.pre
        /\ Len(diag) = apiLast.preDiag + 1
        /\ diag[Len(diag)].msg = "widelogger: odd number of arguments"

\* C20: SetDefaultLogger(nil) panics and leaves the default logger as it
\* was; SetDefaultLogger(s) makes s the default logger; no other call
\* changes it, and each package-level Info / Warn / Error / Debug writes one
\* record, at its level, through the default logger of the moment.
C20_DefaultLogger ==
    /\ (apiLast.op = "SetDefaultLogger" /\ apiLast.logger = "") =>
          apiLast.panicked /\ defaultLogger = apiLast.preDefault
    /\ (apiLast.op = "SetDefaultLogger" /\ apiLast.logger # "") =>
          ~apiLast.panicked /\ defaultLogger = apiLast.logger
    /\ apiLast.op \notin {"", "SetDefaultLogger"} => defaultLogger = apiLast.preDefault
    /\ defaultLogger # ""
    /\ apiLast.op \in Levels =>
          /\ Len(sinkLog) = apiLast.preSink + 1
          /\ sinkLog[Len(sinkLog)].sink = defaultLogger
          /\ sinkLog[Len(sinkLog)].rec.level = apiLast.op
    /\ apiLast.op \notin Levels => Len(sinkLog) = apiLast.preSink

C20_Witness ==
    /\ apiLast.op = LevelDebug
    /\ defaultLogger = "s2"
    /\ sinkLog = <<[sink |-> "s2", rec |-> LogRecord(LevelDebug, "note", <<>>, <<>>)]>>

\* The request-ID configuration the options ask for, read from the options.
RequestIDRequested == Len(opts.requestID) > 0

RequestedConfig == WithRequestID(opts.requestID[1])

\* The request went past the exclusion test.
Served == pc # "idle" /\ ~ExcludedByOptions

\* C17: with request-ID handling enabled, an inbound header that is not
\* empty is the identifier, verbatim, and the generator is not called; when
\* it is absent or empty the generator is called exactly once and what it
\* returns is the identifier.  The identifier is the request_id field the
\* downstream handler finds when it starts.
C17_RequestIDResolution ==
    /\ (RequestIDRequested /\ Served) =>
          LET inbound == req.headers[RequestedConfig.HeaderName]
          IN  /\ inbound # "" => ctxRequestID = inbound /\ generatorCalls = 0
              /\ inbound = "" =>
                    /\ generatorCalls = 1
                    /\ ctxRequestID =
                          (IF RequestedConfig.customGenerator THEN "custom-id" ELSE "uuid-v4")
              /\ ops = 0 =>
                    /\ "request_id" \in DOMAIN fields
                    /\ fields["request_id"] = StrV(ctxRequestID)
    /\ ~(RequestIDRequested /\ Served) =>
          /\ generatorCalls = 0
          /\ ctxRequestID = ""
          /\ ops = 0 => "request_id" \notin DOMAIN fields

C17_Witness ==
    /\ RequestIDRequested /\ RequestedConfig.customGenerator
    /\ pc = "done"
    /\ req.headers["X-Request-ID"] = "client-id"
    /\ ctxRequestID = "client-id"
    /\ generatorCalls = 0

\* C18: with propagation enabled, the identifier is on the response header
\* from the moment the downstream handler is invoked, so the headers any
\* WriteHeader or Write sends carry it; with propagation disabled, or
\* request-ID handling not enabled, the middleware never sets it.
C18_PropagateBeforeHandler ==
    LET hn == IF RequestIDRequested THEN RequestedConfig.HeaderName ELSE "X-Request-ID"
    IN  IF RequestIDRequested /\ Served /\ RequestedConfig.PropagateToResponse
        THEN /\ handlerCalls # <<>>
             /\ ctxRequestID # ""
             /\ resp.header[hn] = ctxRequestID
             /\ resp.wroteHeader => resp.sentHeader[hn] = ctxRequestID
        ELSE resp.header[hn] = "" /\ resp.sentHeader[hn] = ""

C18_Witness ==
    /\ RequestIDRequested /\ RequestedConfig.PropagateToResponse
    /\ pc = "handler" /\ ops = 1
    /\ resp.wroteHeader
    /\ resp.sentHeader["X-Request-ID"] = "uuid-v4"

\* C19: the status the wrapped writer captured is the code of the first
\* WriteHeader when it comes before every Write, and 200 when a Write comes
\* first or nothing was written; no later WriteHeader changes it.
C19_FirstStatusWins ==
    /\ wcalls = <<>> => rw.statusCode = 200 /\ ~rw.written
    /\ wcalls # <<>> =>
          /\ rw.written
          /\ rw.statusCode = IF wcalls[1].op = "Write" THEN 200 ELSE wcalls[1].code
          /\ resp.wroteHeader /\ resp.status = rw.statusCode

C19_Witness ==
    /\ Len(wcalls) >= 3
    /\ wcalls[1] = [op |-> "WriteHeader", code |-> 400]
    /\ wcalls[2] = [op |-> "Write", code |-> 0]
    /\ wcalls[3] = [op |-> "WriteHeader", code |-> 500]
    /\ rw.statusCode = 400

\* C21: what collectFields returns is one pair for each stored field, then
\* the pairs warnings and warning_count exactly when there are warnings,
\* the count being their number, then the pairs errors and error_count
\* exactly when there are errors; it is empty for an empty container.
C21_SnapshotShape ==
    LastOnBound("collectFields") =>
        LET a == apiLast.retAttrs
            n == 2 * Cardinality(DOMAIN fields)
            w == IF Len(warnings) > 0 THEN 4 ELSE 0
            e == IF Len(errors) > 0 THEN 4 ELSE 0
        IN  /\ Len(a) = n + w + e
            /\ {a[i].s : i \in {j \in 1..n : j % 2 = 1}} = DOMAIN fields
            /\ \A i \in {j \in 1..n : j % 2 = 1} : a[i + 1] = fields[a[i].s]
            /\ w = 4 =>
                  SubSeq(a, n + 1, n + 4) =
                     <<StrV("warnings"), ListV(warnings),
                       StrV("warning_count"), IntV(Len(warnings))>>
            /\ e = 4 =>
                  SubSeq(a, n + w + 1, n + w + 4) =
                     <<StrV("errors"), ListV(errors),
                       StrV("error_count"), IntV(Len(errors))>>
            /\ (fields = EmptyFields /\ warnings = <<>> /\ errors = <<>>) => a = <<>>

C21_Witness ==
    /\ LastOnBound("collectFields")
    /\ fields = EmptyFields
    /\ Len(warnings) = 1 /\ errors = <<>>
    /\ Len(apiLast.retAttrs) = 4
    /\ apiLast.retAttrs[4] = IntV(1)

\* C22: a call of Info, Warn, Error or Debug hands the sink exactly one
\* record, at the severity of the function called, whose attributes are
\* the container's snapshot followed by the call's own pairs in the order
\* given; a key the snapshot holds as well appears once more for each pair
\* that names it, the call's pair last.
C22_LogForwardsOneRecord ==
    apiLast.op \in Levels =>
        LET rec == sinkLog[Len(sinkLog)].rec
            extra == apiLast.kv
            snap == apiLast.retAttrs
        IN  /\ Len(sinkLog) = apiLast.preSink + 1
            /\ rec.level = apiLast.op /\ rec.msg = apiLast.message
            /\ rec.attrs = snap \o extra
            /\ IF apiLast.ctx = "bound"
               THEN \E order \in KeyOrders(DOMAIN fields) :
                       snap = CollectAttrs(fields, warnings, errors, order)
               ELSE snap = <<>>
            /\ \A k \in StringKeys(extra) :
                  /\ Occurrences(rec.attrs, k) =
                        Occurrences(snap, k) + Occurrences(extra, k)
                  /\ AttrValue(rec.attrs, k) = LastWritten(extra, k)
            /\ Content = apiLast.pre

C22_Witness ==
    /\ apiLast.op = LevelWarn /\ apiLast.ctx = "bound"
    /\ apiLast.kv = <<StrV("b"), StrV("w"), StrV("a"), StrV("w")>>
    /\ DOMAIN fields = {"a", "b"}
    /\ Occurrences(sinkLog[1].rec.attrs, "a") = 2
    /\ Occurrences(sinkLog[1].rec.attrs, "b") = 2
    /\ Len(sinkLog[1].rec.attrs) = 8

\* The record was written by the deferred function after a panic.
IsPanicRecord(rec) == rec.msg = "http_request_panic"

\* C25, as claimed: every record the middleware writes, the panic record
\* included, holds method, path, remote_addr, status_code and duration_ms.
C25_EveryRecordHasBaseFields ==
    \A i \in 1..Len(log) :
        \A k \in {"method", "path", "remote_addr", "status_code", "duration_ms"} :
            HasAttr(log[i].attrs, k)

\* C25, amended: every record holds method, path and remote_addr; the
\* completion record also holds status_code (the captured status) and
\* duration_ms; the panic record holds panic, no duration_ms, and no
\* status_code but one the downstream handler stored itself, because the
\* middleware stores the two only after the downstream handler has returned.
C25_BaseFieldsByPath ==
    \A i \in 1..Len(log) :
        LET a == log[i].attrs
        IN  /\ HasAttr(a, "method") /\ HasAttr(a, "remote_addr")
            /\ HasAttr(a, "path") /\ AttrValue(a, "path") = StrV(req.path)
            /\ IF IsPanicRecord(log[i])
               THEN /\ HasAttr(a, "panic")
                    /\ ~HasAttr(a, "duration_ms")
                    /\ HasAttr(a, "status_code") =>
                          AttrValue(a, "status_code") = HandlerOverrides[2]
               ELSE /\ HasAttr(a, "status_code")
                    /\ AttrValue(a, "status_code") = IntV(rw.statusCode)
                    /\ HasAttr(a, "duration_ms")
                    /\ ~HasAttr(a, "panic")

C25_Witness ==
    /\ pc = "done" /\ Len(log) = 1
    /\ IsPanicRecord(log[1])
    /\ rw.written /\ rw.statusCode = 500
    /\ HasAttr(log[1].attrs, "method")
    /\ ~HasAttr(log[1].attrs, "status_code")

\* The header names the options ask to include, and those of them the
\* request carries with a value.
ConfiguredHeaders == {opts.includeHeaders[i] : i \in 1..Len(opts.includeHeaders)}

PresentHeaders == {h \in ConfiguredHeaders : req.headers[h] # ""}

\* C28: field query is stored exactly when the raw query string is not
\* empty; field request_headers is stored exactly when some configured
\* header has a value, and it is the map of the configured headers that
\* have one, so no other header and no empty value is in it; the records
\* written carry the same.
C28_ConditionalSeeds ==
    Served =>
        /\ "query" \in DOMAIN fields <=> req.query # ""
        /\ req.query # "" => fields["query"] = StrV(req.query)
        /\ "request_headers" \in DOMAIN fields <=> PresentHeaders # {}
        /\ PresentHeaders # {} =>
              /\ fields["request_headers"].t = "map"
              /\ DOMAIN fields["request_headers"].m = PresentHeaders
              /\ \A h \in PresentHeaders :
                    fields["request_headers"].m[h] = req.headers[h]
        /\ \A i \in 1..Len(log) :
              /\ HasAttr(log[i].attrs, "query") <=> req.query # ""
              /\ HasAttr(log[i].attrs, "request_headers") <=> PresentHeaders # {}

C28_Witness ==
    /\ pc = "done" /\ Len(log) = 1
    /\ ConfiguredHeaders = {"User-Agent"}
    /\ req.headers["X-Request-ID"] # "" /\ req.headers["User-Agent"] = "curl"
    /\ DOMAIN fields["request_headers"].m = {"User-Agent"}
    /\ HasAttr(log[1].attrs, "request_headers") /\ HasAttr(log[1].attrs, "query")

\* C30: for a request classified Info, with a configured rate below 1 and
\* the draw d the gate made, the record is suppressed exactly when d is at
\* least the rate, a draw equal to the rate included.
C30_SuppressedIffDrawAtLeastRate ==
    (CompletedNormally /\ outcome.level = LevelInfo
       /\ Len(opts.sampling) > 0 /\ ClampRate(opts.sampling[1]) < RateScale) =>
        /\ outcome.draw \in 0..(RateScale - 1)
        /\ Len(log) = 0 <=> outcome.draw >= ClampRate(opts.sampling[1])

\* The caller passed a RequestIDConfig to WithRequestID.
SubConfigGiven == RequestIDRequested /\ Len(opts.requestID[1]) > 0

\* C27: with request-ID handling enabled, a setting the caller does not
\* supply takes its default: header X-Request-ID, the UUID-v4 generator,
\* propagation to the response; so a RequestIDConfig that supplies only a
\* header name, or only a generator, has the identifier on the response.
C27_UnsuppliedTakeDefaults ==
    (RequestIDRequested /\ Served) =>
        /\ ~SubConfigGiven =>
              /\ cfg.requestIDConfig = DefaultRequestIDConfig
              /\ resp.header["X-Request-ID"] = ctxRequestID
        /\ SubConfigGiven =>
              LET a == opts.requestID[1][1]
              IN  /\ a.HeaderName = "" => cfg.requestIDConfig.HeaderName = "X-Request-ID"
                  /\ ~a.customGenerator => ~cfg.requestIDConfig.customGenerator
                  /\ (~a.PropagateToResponse /\ (a.HeaderName # "" \/ a.customGenerator)) =>
                        resp.header[cfg.requestIDConfig.HeaderName] = ctxRequestID

IsPrefix(q, r) == Len(q) <= Len(r) /\ SubSeq(r, 1, Len(q)) = q

\* C26: warnings and errors are append-only: every step leaves the entries
\* there were, unchanged and in their places, so the lengths never go down
\* and HasWarnings / HasErrors never go back to false; an AddWarning or
\* AddError call on the container's context adds its entry at the end, so
\* calls made one after the other appear in call order.
C26_AppendOnly ==
    [][/\ IsPrefix(warnings, warnings') /\ IsPrefix(errors, errors')
       /\ Len(warnings) > 0 => Len(warnings') > 0
       /\ Len(errors) > 0 => Len(errors') > 0
       /\ (apiLast'.op = "AddWarning" /\ apiLast'.ctx = "bound") =>
             /\ Len(warnings') = Len(warnings) + 1
             /\ warnings'[Len(warnings')].message = apiLast'.message
       /\ (apiLast'.op = "AddError" /\ apiLast'.ctx = "bound") =>
             /\ Len(errors') = Len(errors) + 1
             /\ errors'[Len(errors')].message = apiLast'.message
       /\ (apiLast'.op = "HasWarnings" /\ apiLast'.ctx = "bound") =>
             apiLast'.retBool = (Len(warnings) > 0)
       /\ (apiLast'.op = "HasErrors" /\ apiLast'.ctx = "bound") =>
             apiLast'.retBool = (Len(errors) > 0)]_vars

C26_Witness ==
    /\ LastOnBound("AddWarning")
    /\ Len(warnings) = 2
    /\ warnings[1].nilFields /\ ~warnings[2].nilFields
    /\ apiLast.pre.warnings = <<warnings[1]>>

\* C29: no diagnostic is written by a goroutine while it holds the
\* container's mutex: a step of the goroutine that holds mu (its position or
\* its locals change) leaves the diagnostics written so far as they are.
C29_NoSinkWriteUnderLock ==
    [][\A p \in Procs :
          (mu = p /\ (gpc'[p] # gpc[p] \/ gtmp'[p] # gtmp[p])) => diag' = diag]_vars

\* C23: NewContext makes a new container, empty and with its map and
\* slices made, bound to no other context, and leaves every container there
\* was as it is; an accumulation call through a context changes the
\* container of that context and no other, whether the context was derived
\* from one that has a container or the other way round.
C23_FreshIndependentContainer ==
    /\ \A c, d \in 1..Len(ctxs) : c # d => ctxs[c].container # ctxs[d].container
    /\ ctxLast.op = "NewContext" =>
          LET k == ctxs[ctxLast.ctx].container
          IN  /\ Len(heap) = Len(ctxLast.pre) + 1 /\ k = Len(heap)
              /\ heap[k].fields = EmptyFields /\ ~heap[k].nilFields
              /\ heap[k].warnings = <<>> /\ ~heap[k].nilWarnings
              /\ heap[k].errors = <<>> /\ ~heap[k].nilErrors
              /\ \A j \in 1..Len(ctxLast.pre) : heap[j] = ctxLast.pre[j]
    /\ ctxLast.op \in {"AddFields", "AddWarning", "AddError"} =>
          LET k == ctxs[ctxLast.ctx].container
          IN  /\ Len(heap) = Len(ctxLast.pre)
              /\ \A j \in 1..Len(heap) : j # k => heap[j] = ctxLast.pre[j]
              /\ ctxLast.op = "AddFields" =>
                    \A key \in StringKeys(ctxLast.kv) :
                        /\ key \in DOMAIN heap[k].fields
                        /\ heap[k].fields[key] = LastWritten(ctxLast.kv, key)
              /\ ctxLast.op = "AddWarning" =>
                    Len(heap[k].warnings) = Len(ctxLast.pre[k].warnings) + 1
              /\ ctxLast.op = "AddError" =>
                    Len(heap[k].errors) = Len(ctxLast.pre[k].errors) + 1

C23_Witness ==
    /\ Len(ctxs) = 2 /\ ctxs[2].parent = 1
    /\ ctxLast.op = "AddWarning" /\ ctxLast.ctx = 2
    /\ DOMAIN heap[1].fields = {"a"} /\ heap[1].warnings = <<>>
    /\ heap[2].fields = EmptyFields /\ Len(heap[2].warnings) = 1

\* The calls of one kind the handler of request i made.
CallsOf(i, op) == rq[i].calls[op]

\* C24: requests served at the same time have containers of their own: the
\* record of a request holds its own path, the field, the warnings and the
\* errors its own handler added and nothing another request added, and its
\* severity follows from its own warnings and errors alone.
C24_RequestsShareNothing ==
    /\ \A i, j \in Reqs :
          (i # j /\ rq[i].pc # "idle" /\ rq[j].pc # "idle") => rq[i].ctx # rq[j].ctx
    /\ \A i \in Reqs : rq[i].pc = "done" <=> rlog[i] # NoRecord
    /\ \A i \in {j \in Reqs : rq[j].pc = "done"} :
          LET a == rlog[i].attrs
          IN  /\ AttrValue(a, "path") = StrV(RequestOf(i).path)
              /\ HasAttr(a, "user_id") <=> CallsOf(i, "AddFields") > 0
              /\ HasAttr(a, "user_id") => AttrValue(a, "user_id") = StrV(TagOf(i))
              /\ HasAttr(a, "warnings") <=> CallsOf(i, "AddWarning") > 0
              /\ HasAttr(a, "warnings") =>
                    /\ AttrValue(a, "warning_count") = IntV(CallsOf(i, "AddWarning"))
                    /\ \A w \in 1..Len(AttrValue(a, "warnings").l) :
                          AttrValue(a, "warnings").l[w].message = MessageOf(i)
              /\ HasAttr(a, "errors") <=> CallsOf(i, "AddError") > 0
              /\ HasAttr(a, "errors") =>
                    /\ AttrValue(a, "error_count") = IntV(CallsOf(i, "AddError"))
                    /\ \A e \in 1..Len(AttrValue(a, "errors").l) :
                          AttrValue(a, "errors").l[e].message = MessageOf(i)
              /\ rlog[i].level =
                    (IF CallsOf(i, "AddError") > 0 THEN LevelError
                     ELSE IF CallsOf(i, "AddWarning") > 0 THEN LevelWarn
                     ELSE LevelInfo)

C24_Witness ==
    /\ rq[1].pc = "done" /\ rq[2].pc = "done"
    /\ CallsOf(1, "AddError") = 1 /\ CallsOf(2, "AddFields") = 1
    /\ CallsOf(2, "AddError") = 0
    /\ rq[1].ctx = 2 /\ rq[2].ctx = 1
    /\ rlog[1].level = LevelError /\ ~HasAttr(rlog[1].attrs, "user_id")
    /\ rlog[2].level = LevelInfo /\ ~HasAttr(rlog[2].attrs, "errors")

\* C31: every AddFields, AddWarning or AddError call on a context without a
\* container, whatever its arguments (an empty AddFields list included),
\* writes exactly one diagnostic 'context not initialized' naming the
\* function, and an odd list on such a context is reported as
\* uninitialized, not as odd.
C31_UninitializedAlwaysDiagnosed ==
    (LastOnUnbound /\ apiLast.op \in {"AddFields", "AddWarning", "AddError"}) =>
        /\ Len(diag) = apiLast.preDiag + 1
        /\ diag[Len(diag)] = Diag("widelogger: context not initialized", apiLast.op)

(***************************************************************************)
(* SpecOpts: Middleware(next, opts...) builds its config by applying the   *)
(* options in the order given.                                             *)
(***************************************************************************)
\* The arguments a caller may pass to WithSuccessSampling.
SamplingArgs ==
    {Num(x) : x \in -1..(RateScale + 1)} \cup {NaN, NegInf, PosInf}

\* The options of a list: WithSuccessSampling(rate) and WithPanicHandler(fn).
OptionChoices ==
    {[opt |-> "WithSuccessSampling", rate |-> r] : r \in SamplingArgs}
        \cup {[opt |-> "WithPanicHandler", rate |-> Num(0)]}

RECURSIVE OptionLists(_)
OptionLists(n) ==
    IF n = 0 THEN {<<>>}
    ELSE OptionLists(n - 1)
            \cup {Append(l, o) : l \in {m \in OptionLists(n - 1) : Len(m) = n - 1},
                                 o \in OptionChoices}

InitOpts ==
    /\ IdleMiddleware
    /\ IdleGoroutines
    /\ IdleApi
    /\ IdleHeap
    /\ bound = FALSE
    /\ fields = EmptyFields
    /\ warnings = <<>>
    /\ errors = <<>>
    /\ diag = <<>>
    /\ IdleLocks
    /\ IdleFin
    /\ IdleBind
    /\ IdleSnap
    /\ optList \in OptionLists(MaxOptions)
    /\ optPos = 0
    /\ built = NewConfig

\* opt(cfg) for an option made by WithSuccessSampling
OptSampling ==
    /\ optPos < Len(optList)
    /\ optList[optPos + 1].opt = "WithSuccessSampling"
    /\ built' = [built EXCEPT !.samplingRate = ClampFloat(optList[optPos + 1].rate)]
    /\ optPos' = optPos + 1
    /\ UNCHANGED <<optList, cvars, mvars, gvars, avars, hvars, lvars, fvars, bvars, svars>>

\* opt(cfg) for an option made by WithPanicHandler
OptPanicHandler ==
    /\ optPos < Len(optList)
    /\ optList[optPos + 1].opt = "WithPanicHandler"
    /\ built' = [built EXCEPT !.onPanic = TRUE]
    /\ optPos' = optPos + 1
    /\ UNCHANGED <<optList, cvars, mvars, gvars, avars, hvars, lvars, fvars, bvars, svars>>

NextOpts ==
    \/ OptSampling
    \/ OptPanicHandler

SpecOpts == InitOpts /\ [][NextOpts]_vars

\* The sampling options among the first n of the list.
SamplingGiven(n) ==
    {i \in 1..n : optList[i].opt = "WithSuccessSampling"}

LastSampling(n) ==
    optList[CHOOSE i \in SamplingGiven(n) : \A j \in SamplingGiven(n) : j <= i].rate

\* C32: the sampling rate of the config is always a number within [0,1]:
\* after the options applied so far it is 1.0 when none of them is a sampling
\* option, and otherwise what the last sampling option asks for: 0 for an
\* argument below 0, 1 for one above 1, the argument itself otherwise.
C32_RateWithinUnitInterval ==
    /\ built.samplingRate.k = "num"
    /\ built.samplingRate.n \in 0..RateScale
    /\ SamplingGiven(optPos) = {} => built.samplingRate = Num(RateScale)
    /\ SamplingGiven(optPos) # {} =>
          LET r == LastSampling(optPos)
          IN  \/ r.k = "-inf" /\ built.samplingRate = Num(0)
              \/ r.k = "+inf" /\ built.samplingRate = Num(RateScale)
              \/ r.k = "num" /\ r.n < 0 /\ built.samplingRate = Num(0)
              \/ r.k = "num" /\ r.n > RateScale /\ built.samplingRate = Num(RateScale)
              \/ r.k = "num" /\ r.n \in 0..RateScale /\ built.samplingRate = r
              \/ r.k = "nan" /\ built.samplingRate = r

\* C33: with request-ID handling enabled, one identifier is in three
\* places: GetRequestID on the context handed to the downstream handler
\* returns it, field request_id holds it when the handler starts, and with
\* propagation enabled the response header holds it; it is the inbound
\* header's value or what the generator returned.  With request-ID handling
\* not enabled GetRequestID returns "" and no request_id field is seeded.
C33_OneIdentifierEverywhere ==
    /\ (RequestIDRequested /\ Served) =>
          LET inbound == req.headers[RequestedConfig.HeaderName]
              id == IF inbound # "" THEN inbound
                    ELSE IF RequestedConfig.customGenerator THEN "custom-id" ELSE "uuid-v4"
          IN  /\ seenRequestID = id
              /\ ops = 0 =>
                    /\ "request_id" \in DOMAIN fields
                    /\ fields["request_id"] = StrV(seenRequestID)
              /\ RequestedConfig.PropagateToResponse =>
                    resp.header[RequestedConfig.HeaderName] = seenRequestID
    /\ ~(RequestIDRequested /\ Served) =>
          /\ seenRequestID = ""
          /\ ops = 0 => "request_id" \notin DOMAIN fields

C33_Witness ==
    /\ RequestIDRequested /\ RequestedConfig.PropagateToResponse
    /\ pc = "handler" /\ ops = 0
    /\ req.headers["X-Request-ID"] = ""
    /\ seenRequestID = "uuid-v4"
    /\ fields["request_id"] = StrV("uuid-v4")
    /\ resp.header["X-Request-ID"] = "uuid-v4"

\* The downstream handler passed its overriding list to AddFields.
HandlerOverrode == \E i \in 1..Len(handlerFields) : handlerFields[i] = HandlerOverrides

\* C36: in the completion record status_code is the status the wrapped
\* writer captured, also when the downstream handler stored a field
\* status_code itself; a value the handler stored under method or
\* request_id is the record's value in place of the one the middleware
\* seeded, and without such a write the record holds the seeded values.
C36_WhoWritesLastWins ==
    (CompletedNormally /\ ~ExcludedByOptions /\ Len(log) = 1) =>
        LET a == log[1].attrs
        IN  /\ AttrValue(a, "status_code") = IntV(rw.statusCode)
            /\ rw.statusCode # HandlerOverrides[2].n
            /\ HandlerOverrode =>
                  /\ AttrValue(a, "method") = HandlerOverrides[4]
                  /\ AttrValue(a, "request_id") = HandlerOverrides[6]
            /\ ~HandlerOverrode =>
                  /\ AttrValue(a, "method") = StrV("GET")
                  /\ RequestIDRequested => AttrValue(a, "request_id") = StrV(seenRequestID)
                  /\ ~RequestIDRequested => ~HasAttr(a, "request_id")

C36_Witness ==
    /\ CompletedNormally /\ Len(log) = 1
    /\ HandlerOverrode
    /\ RequestIDRequested /\ seenRequestID = "client-id"
    /\ rw.written /\ rw.statusCode = 500
    /\ AttrValue(log[1].attrs, "status_code") = IntV(500)
    /\ AttrValue(log[1].attrs, "request_id") = StrV("handler-id")

(***************************************************************************)
(* SpecLocks: goroutines that each make one call of the package, stepping  *)
(* through container.mu and defaultLoggerMu.  A step reaches up to the     *)
(* next lock operation of the call.                                        *)
(***************************************************************************)
\* defaultLogger between the two halves of an assignment.
PartialLogger == "partial"

\* The calls a goroutine may make.
LockCalls ==
    {[op |-> "AddFields", message |-> "", kv |-> kv, logger |-> ""] :
        kv \in {<<>>, <<StrV("a"), StrV("x")>>, <<IntV(1), StrV("x")>>, <<StrV("a")>>}}
    \cup {[op |-> op, message |-> "m", kv |-> <<>>, logger |-> ""] :
            op \in {"AddWarning", "AddError"}}
    \cup {[op |-> op, message |-> "", kv |-> <<>>, logger |-> ""] :
            op \in {"HasWarnings", "HasErrors", "collectFields"}}
    \cup {[op |-> LevelInfo, message |-> "note", kv |-> <<>>, logger |-> ""]}
    \cup {[op |-> "SetDefaultLogger", message |-> "", kv |-> <<>>, logger |-> l] :
            l \in Loggers}

\* Where a call goes first: a return without any lock, getDefaultLogger for
\* a diagnostic or for New(nil), container.mu.Lock(), defaultLoggerMu.Lock().
FirstLockStep(c) ==
    IF c.op = "SetDefaultLogger" THEN (IF c.logger = "" THEN "done" ELSE "wbegin")
    ELSE IF c.op = LevelInfo THEN "rlock"
    ELSE IF c.op = "AddFields" /\ Len(c.kv) = 0 THEN "done"
    ELSE IF c.op \in {"AddFields", "AddWarning", "AddError"} /\ ~bound THEN "rlock"
    ELSE IF ~bound THEN "done"
    ELSE IF c.op = "AddFields" /\ Len(c.kv) % 2 # 0 THEN "rlock"
    ELSE "lock"

\* The diagnostic a call writes once it has the default logger.
LockDiag(c) ==
    IF ~bound THEN Diag("widelogger: context not initialized", c.op)
    ELSE IF Len(c.kv) % 2 # 0 THEN Diag("widelogger: odd number of arguments", c.op)
    ELSE Diag("widelogger: key must be string", "")

\* Faulty variant: RLock does not wait for a writer.
RLockAlwaysAvailable(wr) == TRUE

\* sync.RWMutex.RLock returns only while no writer holds or awaits the lock.
RLockAvailable(wr) == wr = 0

\* Faulty variant: the function returns without unlocking.
ReleaseMuKeep(m) == m

\* container.mu.Unlock()
ReleaseMu(m) == 0

InitLocks ==
    /\ IdleMiddleware
    /\ IdleGoroutines
    /\ IdleApi
    /\ IdleHeap
    /\ IdleOptions
    /\ IdleLocks
    /\ IdleBind
    /\ IdleSnap
    /\ IdleFin
    /\ bound \in BOOLEAN
    /\ fields = EmptyFields
    /\ warnings = <<>>
    /\ errors = <<>>
    /\ diag = <<>>

\* A goroutine makes its call and runs up to the first lock operation.  When
\* the call has returned its locals are gone.
LCall(w, c) ==
    /\ lpc[w] = "idle"
    /\ lpc' = [lpc EXCEPT ![w] = FirstLockStep(c)]
    /\ lcall' = [lcall EXCEPT ![w] = IF FirstLockStep(c) = "done" THEN NoLockCall ELSE c]
    /\ UNCHANGED <<lgot, lset, rwWriter, rwReaders, cvars, mvars, gvars, avars, hvars, ovars, fvars, bvars, svars>>

\* getDefaultLogger: defaultLoggerMu.RLock() and the read of defaultLogger.
LRLock(w) ==
    /\ lpc[w] = "rlock"
    /\ RLockAvailable(rwWriter)
    /\ rwReaders' = rwReaders \cup {w}
    /\ lgot' = [lgot EXCEPT ![w].logger = defaultLogger]
    /\ lpc' = [lpc EXCEPT ![w] = "runlock"]
    /\ UNCHANGED <<lcall, lset, rwWriter, cvars, mvars, gvars, avars, hvars, ovars, fvars, bvars, svars>>

\* getDefaultLogger: the deferred RUnlock; then a diagnostic is written
\* through the logger obtained, or Logger.Log goes on to collectFields, which
\* returns nil at once without a container.
LRUnlock(w) ==
    /\ lpc[w] = "runlock"
    /\ rwReaders' = rwReaders \ {w}
    /\ IF lcall[w].op = LevelInfo
       THEN /\ UNCHANGED diag
            /\ IF bound
               THEN /\ lpc' = [lpc EXCEPT ![w] = "lock"]
                    /\ UNCHANGED <<lcall, lgot, sinkLog>>
               ELSE /\ sinkLog' = Append(sinkLog,
                            [sink |-> lgot[w].logger,
                             rec |-> LogRecord(LevelInfo, lcall[w].message, <<>>, <<>>)])
                    /\ lpc' = [lpc EXCEPT ![w] = "done"]
                    /\ lcall' = [lcall EXCEPT ![w] = NoLockCall]
                    /\ lgot' = [lgot EXCEPT ![w] = NoLogger]
       ELSE /\ diag' = Append(diag, LockDiag(lcall[w]))
            /\ lgot' = [lgot EXCEPT ![w] = NoLogger]
            /\ UNCHANGED sinkLog
            /\ IF mu = w
               THEN lpc' = [lpc EXCEPT ![w] = "unlock"] /\ UNCHANGED lcall
               ELSE /\ lpc' = [lpc EXCEPT ![w] = "done"]
                    /\ lcall' = [lcall EXCEPT ![w] = NoLockCall]
    /\ UNCHANGED <<lset, rwWriter, bound, fields, warnings, errors, mvars, gvars,
                   apiCalls, apiLast, defaultLogger, wcalls, hvars, ovars, fvars, bvars, svars>>

\* container.mu.Lock() and what the call does under the lock: AddFields
\* stores its pair or goes for the default logger, AddWarning and AddError
\* append, collectFields takes the snapshot, HasWarnings and HasErrors read.
LLock(w) ==
    /\ lpc[w] = "lock"
    /\ MuAvailable(mu)
    /\ mu' = w
    /\ LET c == lcall[w]
       IN  /\ fields' = IF c.op = "AddFields" /\ IsString(c.kv[1])
                        THEN ApplyPairs(fields, c.kv) ELSE fields
           /\ warnings' = IF c.op = "AddWarning"
                          THEN Append(warnings, NewEntry(c.message, c.kv)) ELSE warnings
           /\ errors' = IF c.op = "AddError"
                        THEN Append(errors, NewEntry(c.message, c.kv)) ELSE errors
           /\ lgot' = IF c.op = LevelInfo
                      THEN [lgot EXCEPT ![w].attrs =
                               CollectAttrs(fields, warnings, errors,
                                            SelectSeq(AllKeys, LAMBDA k : k \in DOMAIN fields))]
                      ELSE lgot
           /\ lpc' = [lpc EXCEPT ![w] =
                         IF c.op = "AddFields" /\ ~IsString(c.kv[1]) THEN "rlock" ELSE "unlock"]
    /\ UNCHANGED <<lcall, lset, rwWriter, rwReaders, bound, diag, mvars, gpc, gcall, gtmp,
                   result, hist, avars, hvars, ovars, fvars, bvars, svars>>

\* The deferred container.mu.Unlock() and the return; Logger.Log then writes
\* its record through the logger New(nil) obtained.
LUnlock(w) ==
    /\ lpc[w] = "unlock"
    /\ mu' = ReleaseMu(mu)
    /\ sinkLog' = IF lcall[w].op = LevelInfo
                  THEN Append(sinkLog,
                           [sink |-> lgot[w].logger,
                            rec |-> LogRecord(LevelInfo, lcall[w].message, lgot[w].attrs, <<>>)])
                  ELSE sinkLog
    /\ lpc' = [lpc EXCEPT ![w] = "done"]
    /\ lcall' = [lcall EXCEPT ![w] = NoLockCall]
    /\ lgot' = [lgot EXCEPT ![w] = NoLogger]
    /\ UNCHANGED <<lset, rwWriter, rwReaders, cvars, mvars, gpc, gcall, gtmp, result, hist,
                   apiCalls, apiLast, defaultLogger, wcalls, hvars, ovars, fvars, bvars, svars>>

\* defaultLoggerMu.Lock(), first part: the writer excludes other writers
\* and announces itself, so that no new reader enters.
LWBegin(w) ==
    /\ lpc[w] = "wbegin"
    /\ rwWriter = 0
    /\ rwWriter' = w
    /\ lset' = lset \cup {lcall[w].logger}
    /\ lpc' = [lpc EXCEPT ![w] = "wacquire"]
    /\ UNCHANGED <<lcall, lgot, rwReaders, cvars, mvars, gvars, avars, hvars, ovars, fvars, bvars, svars>>

\* defaultLoggerMu.Lock(), second part: the readers have left; then the
\* first half of defaultLogger = logger.
LWAcquire(w) ==
    /\ lpc[w] = "wacquire"
    /\ rwReaders = {}
    /\ defaultLogger' = PartialLogger
    /\ lpc' = [lpc EXCEPT ![w] = "write"]
    /\ UNCHANGED <<lcall, lgot, lset, rwWriter, rwReaders, cvars, mvars, gvars,
                   apiCalls, apiLast, sinkLog, wcalls, hvars, ovars, fvars, bvars, svars>>

\* The second half of defaultLogger = logger.
LWrite(w) ==
    /\ lpc[w] = "write"
    /\ defaultLogger' = lcall[w].logger
    /\ lpc' = [lpc EXCEPT ![w] = "wunlock"]
    /\ UNCHANGED <<lcall, lgot, lset, rwWriter, rwReaders, cvars, mvars, gvars,
                   apiCalls, apiLast, sinkLog, wcalls, hvars, ovars, fvars, bvars, svars>>

\* defaultLoggerMu.Unlock() and the return.
LWUnlock(w) ==
    /\ lpc[w] = "wunlock"
    /\ rwWriter' = 0
    /\ lpc' = [lpc EXCEPT ![w] = "done"]
    /\ lcall' = [lcall EXCEPT ![w] = NoLockCall]
    /\ UNCHANGED <<lgot, lset, rwReaders, cvars, mvars, gvars, avars, hvars, ovars, fvars, bvars, svars>>

\* What a goroutine does once it is in its call.
LStep(w) ==
    \/ LRLock(w)
    \/ LRUnlock(w)
    \/ LLock(w)
    \/ LUnlock(w)
    \/ LWBegin(w)
    \/ LWAcquire(w)
    \/ LWrite(w)
    \/ LWUnlock(w)

NextLocks ==
    \/ \E w \in Callers : \E c \in LockCalls : LCall(w, c)
    \/ \E w \in Callers : LRLock(w)
    \/ \E w \in Callers : LRUnlock(w)
    \/ \E w \in Callers : LLock(w)
    \/ \E w \in Callers : LUnlock(w)
    \/ \E w \in Callers : LWBegin(w)
    \/ \E w \in Callers : LWAcquire(w)
    \/ \E w \in Callers : LWrite(w)
    \/ \E w \in Callers : LWUnlock(w)

SpecLocks == InitLocks /\ [][NextLocks]_vars

\* The scheduler lets every goroutine that can take a step take one.
SpecLocksFair == SpecLocks /\ \A w \in Callers : WF_vars(LStep(w))

\* The goroutines inside SetDefaultLogger's locked region.
Writing == {w \in Callers : lpc[w] \in {"write", "wunlock"}}

\* C34: the default logger is never nil; the logger a reader obtains from
\* getDefaultLogger is the initial one or one passed to a SetDefaultLogger
\* call that has reached the lock, never nil and never a half-written value;
\* while a writer is inside the lock no reader and no other writer is, and
\* readers may be inside together.
C34_DefaultLoggerGuarded ==
    /\ defaultLogger # ""
    /\ "" \notin lset
    /\ \A w \in Callers :
          /\ lpc[w] = "runlock" =>
                /\ lgot[w].logger \in {StdoutLogger} \cup lset
                /\ lgot[w].logger \notin {"", PartialLogger}
          /\ w \in rwReaders <=> lpc[w] = "runlock"
    /\ \A i \in 1..Len(sinkLog) : sinkLog[i].sink \in {StdoutLogger} \cup lset
    /\ Cardinality(Writing) <= 1
    /\ Writing # {} => rwReaders = {} /\ rwWriter \in Writing
    /\ defaultLogger = PartialLogger => Writing # {}

C34_Witness ==
    /\ lpc[1] = "runlock" /\ lgot[1].logger = "s1"
    /\ lcall[1].op = LevelInfo
    /\ lpc[2] = "done" /\ lset = {"s1"}
    /\ defaultLogger = "s1"

\* C38: under fair scheduling every call a goroutine has started returns,
\* whatever the other goroutines do, and a goroutine that is not inside a
\* call holds neither container.mu nor defaultLoggerMu; so no path returns
\* with a lock held and no goroutine waits for ever for a lock.
C38_EveryCallReturnsUnlocked ==
    /\ [](\A w \in Callers :
             lpc[w] \in {"idle", "done"} =>
                 mu # w /\ w \notin rwReaders /\ rwWriter # w)
    /\ \A w \in Callers : (lpc[w] # "idle") ~> (lpc[w] = "done")

\* A goroutine holding container.mu waits for the read lock while a writer
\* is inside defaultLoggerMu.
C38_Witness ==
    /\ bound
    /\ mu = 1 /\ lpc[1] = "rlock" /\ lcall[1].op = "AddFields"
    /\ rwWriter = 2 /\ lpc[2] = "write"

(***************************************************************************)
(* SpecFin: the middleware after next.ServeHTTP returned, while goroutines *)
(* the downstream handler started still call AddError / AddWarning on the  *)
(* request's context.  Each step is one section under container.mu.        *)
(***************************************************************************)
\* Middlewares with WithRequestID() and WithIncludeRequestHeaders, and any
\* sampling option.
FinOptions ==
    {o \in OptionSets :
        o.requestID = <<<<>>>> /\ o.excludePaths = <<>> /\ ~o.onPanic}

FinRequest == [path |-> "/api", query |-> "", headers |-> Headers("", "")]

\* The state in which next.ServeHTTP returns from a handler that wrote
\* nothing and stored nothing itself.
InitFin ==
    /\ IdleGoroutines
    /\ IdleApi
    /\ IdleHeap
    /\ IdleOptions
    /\ IdleLocks
    /\ IdleBind
    /\ IdleSnap
    /\ opts \in FinOptions
    /\ cfg = MakeConfig(opts)
    /\ req = FinRequest
    /\ pc = "returned"
    /\ bound = TRUE
    /\ LET rid == ResolveRequestID(cfg, req)
       IN  /\ fields = SeedFields(cfg, req, rid.id)
           /\ ctxRequestID = rid.id
           /\ seenRequestID = GetRequestID(HandlerContext(cfg, rid.id))
           /\ generatorCalls = rid.generated
           /\ resp = SetResponseRequestID(cfg,
                        [header |-> Headers("", ""), wroteHeader |-> FALSE, status |-> 0,
                         sentHeader |-> Headers("", ""), writes |-> 0], rid.id)
    /\ warnings = <<>>
    /\ errors = <<>>
    /\ diag = <<>>
    /\ rw = [statusCode |-> StatusOK, written |-> FALSE]
    /\ handlerCalls = <<[writer |-> "wrapped", request |-> "with_context"]>>
    /\ ops = 0
    /\ handlerFields = <<>>
    /\ log = <<>>
    /\ panicVal = ""
    /\ callbackCalls = <<>>
    /\ propagated = ""
    /\ outcome = [level |-> "", msg |-> "", shouldLog |-> FALSE, draw |-> -1]
    /\ bgpc = [p \in Procs |-> "idle"]
    /\ fin = NoFinLocals

\* A background producer calls AddError(ctx, message).
BgAddError(p) ==
    /\ bgpc[p] = "idle"
    /\ errors' = AddEntryResult(bound, errors, MessageOf(p), <<>>)
    /\ bgpc' = [bgpc EXCEPT ![p] = "done"]
    /\ UNCHANGED <<bound, fields, warnings, diag, mvars, gvars, avars, hvars, ovars, lvars, fin, bvars, svars>>

\* A background producer calls AddWarning(ctx, message).
BgAddWarning(p) ==
    /\ bgpc[p] = "idle"
    /\ warnings' = AddEntryResult(bound, warnings, MessageOf(p), <<>>)
    /\ bgpc' = [bgpc EXCEPT ![p] = "done"]
    /\ UNCHANGED <<bound, fields, errors, diag, mvars, gvars, avars, hvars, ovars, lvars, fin, bvars, svars>>

\* AddFields(ctx, "status_code", ..., "duration_ms", ...) and, if ctx.Err()
\* is not nil, AddFields(ctx, "context_error", ...)
FinClose ==
    /\ pc = "returned"
    /\ \E dur \in Durations, ctxErr \in CtxErrs :
          LET f1 == ClosingFields(bound, fields, rw.statusCode, dur)
          IN  fields' = IF ctxErr # ""
                        THEN AddFieldsResult(bound, f1, <<StrV("context_error"), StrV(ctxErr)>>)
                        ELSE f1
    /\ pc' = "has_errors"
    /\ UNCHANGED <<bound, warnings, errors, diag, opts, cfg, req, ctxRequestID, seenRequestID,
                   rw, resp, handlerCalls, ops, handlerFields, log, generatorCalls, panicVal,
                   callbackCalls, propagated, outcome, gvars, avars, hvars, ovars, lvars, fvars, bvars, svars>>

\* case HasErrors(ctx): the first case of the switch
FinHasErrors ==
    /\ pc = "has_errors"
    /\ fin' = [fin EXCEPT !.hasErrors = HasEntries(bound, errors)]
    /\ pc' = IF HasEntries(bound, errors) THEN "gate" ELSE "has_warnings"
    /\ UNCHANGED <<cvars, opts, cfg, req, ctxRequestID, seenRequestID,
                   rw, resp, handlerCalls, ops, handlerFields, log, generatorCalls, panicVal,
                   callbackCalls, propagated, outcome, gvars, avars, hvars, ovars, lvars, bgpc, bvars, svars>>

\* case HasWarnings(ctx): evaluated when the first case was false
FinHasWarnings ==
    /\ pc = "has_warnings"
    /\ fin' = [fin EXCEPT !.hasWarnings = HasEntries(bound, warnings)]
    /\ pc' = "gate"
    /\ UNCHANGED <<cvars, opts, cfg, req, ctxRequestID, seenRequestID,
                   rw, resp, handlerCalls, ops, handlerFields, log, generatorCalls, panicVal,
                   callbackCalls, propagated, outcome, gvars, avars, hvars, ovars, lvars, bgpc, bvars, svars>>

\* The rest of the switch and the sampling gate.
FinGate ==
    /\ pc = "gate"
    /\ \E d \in 0..(RateScale - 1) :
          LET c == Classify(fin.hasErrors, fin.hasWarnings, rw.statusCode)
              sl == ShouldLog(c.level, cfg.samplingRate, d)
          IN  /\ outcome' = [level |-> c.level, msg |-> c.msg, shouldLog |-> sl,
                             draw |-> IF NeedsDraw(c.level, cfg.samplingRate) THEN d ELSE -1]
              /\ pc' = IF sl THEN "log" ELSE "done"
    /\ UNCHANGED <<cvars, opts, cfg, req, ctxRequestID, seenRequestID,
                   rw, resp, handlerCalls, ops, handlerFields, log, generatorCalls, panicVal,
                   callbackCalls, propagated, gvars, avars, hvars, ovars, lvars, fvars, bvars, svars>>

\* cfg.logger.Log(ctx, logLevel, logMessage): collectFields and the record
FinLog ==
    /\ pc = "log"
    /\ \E order \in KeyOrders(DOMAIN fields) :
          log' = Append(log, LogRecord(outcome.level, outcome.msg,
                     CollectAttrs(fields, warnings, errors, order), <<>>))
    /\ pc' = "done"
    /\ UNCHANGED <<cvars, opts, cfg, req, ctxRequestID, seenRequestID,
                   rw, resp, handlerCalls, ops, handlerFields, generatorCalls, panicVal,
                   callbackCalls, propagated, outcome, gvars, avars, hvars, ovars, lvars, fvars, bvars, svars>>

NextFin ==
    \/ \E p \in Procs : BgAddError(p)
    \/ \E p \in Procs : BgAddWarning(p)
    \/ FinClose
    \/ FinHasErrors
    \/ FinHasWarnings
    \/ FinGate
    \/ FinLog

SpecFin == InitFin /\ [][NextFin]_vars

\* C35: the severity of the completion record agrees with what the record
\* holds, also when producers append while the middleware finishes: a
\* record with an errors entry is written at Error, one with warnings and no
\* errors at Warn, and the sampling gate suppresses no request whose
\* container holds an error or a warning at that moment.
C35_SeverityAgreesWithRecord ==
    [][/\ log' # log =>
             LET rec == log'[Len(log')]
             IN  /\ HasAttr(rec.attrs, "errors") => rec.level = LevelError
                 /\ (HasAttr(rec.attrs, "warnings") /\ ~HasAttr(rec.attrs, "errors")) =>
                       rec.level = LevelWarn
       /\ (pc = "gate" /\ pc' = "done") => Len(errors) = 0 /\ Len(warnings) = 0]_vars

(***************************************************************************)
(* SpecBind: one goroutine builds a middleware, replaces the default       *)
(* logger, serves requests through the middleware and calls the            *)
(* package-level Info, in any order.                                       *)
(***************************************************************************)
\* The argument of WithLogger, "" when the option is not given.
LoggerOverrides == {"", "custom"}

\* New(logger): the default logger of the moment stands in for nil.
NewLogger(logger, default) == IF logger = "" THEN default ELSE logger

\* Faulty variant: the middleware looks the default logger up for each record.
MiddlewareSinkLookup(m, default) == IF m.override THEN m.logger ELSE default

\* cfg.logger of the closure Middleware returned.
MiddlewareSink(m, default) == m.logger

BindStep == bindCalls < MaxBindCalls /\ bindCalls' = bindCalls + 1

InitBind ==
    /\ IdleMiddleware
    /\ IdleGoroutines
    /\ IdleApi
    /\ IdleHeap
    /\ IdleOptions
    /\ IdleLocks
    /\ IdleFin
    /\ IdleBind
    /\ IdleSnap
    /\ bound = FALSE
    /\ fields = EmptyFields
    /\ warnings = <<>>
    /\ errors = <<>>
    /\ diag = <<>>

\* Middleware(next) or Middleware(next, WithLogger(l)): a cfg.logger that is
\* still nil after the options becomes New(nil).
BBuild(l) ==
    /\ BindStep
    /\ ~mw.built
    /\ mw' = [built |-> TRUE, logger |-> NewLogger(l, defaultLogger),
              override |-> (l # ""), defaultAtBuild |-> defaultLogger]
    /\ UNCHANGED <<cvars, mvars, gvars, avars, hvars, ovars, lvars, fvars, svars>>

\* SetDefaultLogger(l); the caller recovers from the panic on nil.
BSetDefaultLogger(l) ==
    /\ BindStep
    /\ defaultLogger' = SetDefaultLoggerResult(defaultLogger, l)
    /\ UNCHANGED <<mw, cvars, mvars, gvars, apiCalls, apiLast, sinkLog, wcalls, hvars,
                   ovars, lvars, fvars, svars>>

\* The middleware serves a request whose handler writes and stores nothing:
\* one Info record through cfg.logger.
BServe ==
    /\ BindStep
    /\ mw.built
    /\ \E dur \in Durations :
          LET c == MakeConfig(opts)
              f == ClosingFields(TRUE, SeedFields(c, FinRequest, ""), StatusOK, dur)
              k == Classify(FALSE, FALSE, StatusOK)
          IN  \E order \in KeyOrders(DOMAIN f) :
                 sinkLog' = Append(sinkLog,
                     [sink |-> MiddlewareSink(mw, defaultLogger),
                      rec |-> LogRecord(k.level, k.msg,
                                        CollectAttrs(f, <<>>, <<>>, order), <<>>)])
    /\ UNCHANGED <<mw, cvars, mvars, gvars, apiCalls, apiLast, defaultLogger, wcalls, hvars,
                   ovars, lvars, fvars, svars>>

\* The package-level Info(ctx, "note") on a context without a container.
BInfo ==
    /\ BindStep
    /\ sinkLog' = Append(sinkLog,
           [sink |-> NewLogger("", defaultLogger),
            rec |-> LogRecord(LevelInfo, "note", <<>>, <<>>)])
    /\ UNCHANGED <<mw, cvars, mvars, gvars, apiCalls, apiLast, defaultLogger, wcalls, hvars,
                   ovars, lvars, fvars, svars>>

NextBind ==
    \/ \E l \in LoggerOverrides : BBuild(l)
    \/ \E l \in Loggers : BSetDefaultLogger(l)
    \/ BServe
    \/ BInfo

SpecBind == InitBind /\ [][NextBind]_vars

\* C37: a middleware built without a logger option sends every record
\* through the logger that was the default when Middleware(...) was called,
\* whatever SetDefaultLogger calls came later, and one built with
\* WithLogger(l) through l; the package-level functions send theirs through
\* the default logger of the moment of the call.
C37_BoundAtConstruction ==
    [][/\ mw.built => mw' = mw
       /\ Len(sinkLog') > Len(sinkLog) =>
             LET e == sinkLog'[Len(sinkLog')]
             IN  /\ e.rec.msg = "http_request_completed" =>
                       e.sink = (IF mw.override THEN "custom" ELSE mw.defaultAtBuild)
                 /\ e.rec.msg = "note" => e.sink = defaultLogger
                 /\ e.rec.msg \in {"http_request_completed", "note"}
       /\ (~mw.built /\ mw'.built /\ ~mw'.override) => mw'.defaultAtBuild = defaultLogger]_vars

\* The default logger was replaced after construction and the middleware's
\* record still went to the one of the construction.
C37_Witness ==
    /\ mw.built /\ ~mw.override /\ mw.defaultAtBuild = StdoutLogger
    /\ defaultLogger = "s1"
    /\ Len(sinkLog) = 1
    /\ sinkLog[1].rec.msg = "http_request_completed" /\ sinkLog[1].sink = StdoutLogger

(***************************************************************************)
(* SpecSnap: container.warnings and container.errors as slice headers      *)
(* over backing arrays, and the sequence collectFields returns as a        *)
(* holder of copies of those headers.  One goroutine calls AddFields,      *)
(* AddWarning, AddError and collectFields in any order.                    *)
(***************************************************************************)
\* The elements a slice header gives access to.
SliceView(mem, h) == IF h.len = 0 THEN <<>> ELSE SubSeq(mem[h.ptr], 1, h.len)

\* The capacities append may choose when it has to allocate: what is
\* needed, or one more.
GrownCaps(h) == {h.len + 1, h.len + 2}

\* Faulty variant: with room in the array the new element is put in front
\* and the elements present are moved up.
GoAppendInFront(mem, h, e, newcap) ==
    IF h.len < h.cap
    THEN [arrs |-> [mem EXCEPT ![h.ptr] =
                       [i \in 1..h.cap |-> IF i = 1 THEN e
                                           ELSE IF i <= h.len + 1 THEN mem[h.ptr][i - 1]
                                           ELSE NoEntry]],
          hdr |-> [h EXCEPT !.len = h.len + 1]]
    ELSE [arrs |-> Append(mem, [i \in 1..newcap |->
                                    IF i <= h.len THEN mem[h.ptr][i]
                                    ELSE IF i = h.len + 1 THEN e ELSE NoEntry]),
          hdr |-> [ptr |-> Len(mem) + 1, len |-> h.len + 1, cap |-> newcap]]

\* append(s, e): with room in the backing array the element is stored
\* behind the last one; without, a new array of capacity newcap receives a
\* copy of the elements and the new one.
GoAppend(mem, h, e, newcap) ==
    IF h.len < h.cap
    THEN [arrs |-> [mem EXCEPT ![h.ptr][h.len + 1] = e],
          hdr |-> [h EXCEPT !.len = h.len + 1]]
    ELSE [arrs |-> Append(mem, [i \in 1..newcap |->
                                    IF i <= h.len THEN mem[h.ptr][i]
                                    ELSE IF i = h.len + 1 THEN e ELSE NoEntry]),
          hdr |-> [ptr |-> Len(mem) + 1, len |-> h.len + 1, cap |-> newcap]]

\* What collectFields returns: the pairs of the fields, and for a sequence
\* that is not empty the slice itself and its length.
SnapshotOf(f, w, e, order) ==
    [taken |-> TRUE, pairs |-> FieldPairs(f, order), warnings |-> w, errors |-> e,
     warning_count |-> w.len, error_count |-> e.len]

\* What a holder of the returned sequence reads in it.
SnapshotRead(mem, s) ==
    s.pairs
    \o (IF s.warning_count > 0
        THEN <<StrV("warnings"), ListV(SliceView(mem, s.warnings)),
               StrV("warning_count"), IntV(s.warning_count)>>
        ELSE <<>>)
    \o (IF s.error_count > 0
        THEN <<StrV("errors"), ListV(SliceView(mem, s.errors)),
               StrV("error_count"), IntV(s.error_count)>>
        ELSE <<>>)

SnapStep == snapCalls < MaxSnapCalls /\ snapCalls' = snapCalls + 1

InitSnap ==
    /\ IdleMiddleware
    /\ IdleGoroutines
    /\ IdleApi
    /\ IdleHeap
    /\ IdleOptions
    /\ IdleLocks
    /\ IdleFin
    /\ IdleBind
    /\ IdleSnap
    /\ bound = TRUE
    /\ fields = EmptyFields
    /\ warnings = <<>>
    /\ errors = <<>>
    /\ diag = <<>>

\* AddFields(ctx, kv...)
SAddFields(kv) ==
    /\ SnapStep
    /\ fields' = AddFieldsResult(bound, fields, kv)
    /\ diag' = diag \o AddFieldsDiags(bound, kv)
    /\ UNCHANGED <<bound, warnings, errors, arrs, hw, he, lastSnap, snapView,
                   mvars, gvars, avars, hvars, ovars, lvars, fvars, bvars>>

\* The messages the calls pass.
SnapMessages == {"slow query", "db timeout"}

\* AddWarning(ctx, msg)
SAddWarning(msg) ==
    /\ SnapStep
    /\ \E newcap \in GrownCaps(hw) :
          LET r == GoAppend(arrs, hw, NewEntry(msg, <<>>), newcap)
          IN  /\ arrs' = r.arrs
              /\ hw' = r.hdr
              /\ warnings' = SliceView(r.arrs, r.hdr)
    /\ UNCHANGED <<bound, fields, errors, diag, he, lastSnap, snapView,
                   mvars, gvars, avars, hvars, ovars, lvars, fvars, bvars>>

\* AddError(ctx, msg)
SAddError(msg) ==
    /\ SnapStep
    /\ \E newcap \in GrownCaps(he) :
          LET r == GoAppend(arrs, he, NewEntry(msg, <<>>), newcap)
          IN  /\ arrs' = r.arrs
              /\ he' = r.hdr
              /\ errors' = SliceView(r.arrs, r.hdr)
    /\ UNCHANGED <<bound, fields, warnings, diag, hw, lastSnap, snapView,
                   mvars, gvars, avars, hvars, ovars, lvars, fvars, bvars>>

\* collectFields(ctx)
SCollect ==
    /\ SnapStep
    /\ \E order \in KeyOrders(DOMAIN fields) :
          /\ lastSnap' = SnapshotOf(fields, hw, he, order)
          /\ snapView' = SnapshotRead(arrs, SnapshotOf(fields, hw, he, order))
    /\ UNCHANGED <<cvars, arrs, hw, he,
                   mvars, gvars, avars, hvars, ovars, lvars, fvars, bvars>>

NextSnap ==
    \/ \E kv \in CtxFieldArgs : SAddFields(kv)
    \/ \E msg \in SnapMessages : SAddWarning(msg)
    \/ \E msg \in SnapMessages : SAddError(msg)
    \/ SCollect

SpecSnap == InitSnap /\ [][NextSnap]_vars

\* C39: the sequence collectFields returned reads the same after any later
\* AddFields, AddWarning and AddError calls as when it was returned: its
\* field pairs, its warnings and errors entries and its warning_count and
\* error_count values.  (The container's own sequences are what its slice
\* headers show of the arrays.)
C39_SnapshotIsStable ==
    /\ lastSnap.taken => SnapshotRead(arrs, lastSnap) = snapView
    /\ warnings = SliceView(arrs, hw) /\ errors = SliceView(arrs, he)

\* The snapshot was taken with one warning in an array of capacity 2, and a
\* later AddWarning stored another entry in that same array.
C39_Witness ==
    /\ lastSnap.taken
    /\ lastSnap.warnings = [ptr |-> 1, len |-> 1, cap |-> 2]
    /\ hw = [ptr |-> 1, len |-> 2, cap |-> 2]
    /\ arrs[1][2] = NewEntry("db timeout", <<>>)
    /\ snapView = <<StrV("warnings"), ListV(<<NewEntry("slow query", <<>>)>>),
                    StrV("warning_count"), IntV(1)>>

====
